---- MODULE Spec2Model ----
(***************************************************************************)
(* Model of the command invocation and response capture bridge of          *)
(* astrbot_plugin_command_to_llm: one CommandExecutor owning one           *)
(* CommandTrigger (command_executor.py:11-13), the synthetic events it     *)
(* creates, the host pipeline that calls their send operation, and the     *)
(* asyncio event loop that runs the invoking tasks co-operatively.         *)
(*                                                                         *)
(* Time is counted in ticks of 0.05 s, the enforced minimum poll interval: *)
(* 1.0 s is 20 ticks.  Durations are exact multiples of a tick; binary     *)
(* floating point rounding, NaN and infinities are outside the model.      *)
(*                                                                         *)
(* Python lists are objects: captured_messages holds a reference into      *)
(* heap, and the batch a call returns is such a reference.                 *)
(***************************************************************************)
EXTENDS Integers, Sequences, FiniteSets, TLC

\* ------------------------------------------------------------ bounds
\* Number of calls of the executor in one run.
MaxInv == 2
\* Number of send calls the host pipeline makes in one run.
MaxSends == 2

\* ------------------------------------------------- program constants
\* max(max_wait_time, 1.0): 1.0 s = 20 ticks
MinWait == 20
\* max(wait_interval, 0.05): 0.05 s = 1 tick
MinInterval == 1

Invs == 1..MaxInv
\* Event i is the synthetic event created by invocation i.
Events == Invs
\* List 0 is the list made by __init__, list i the one made by the
\* setup_message_interceptor call of invocation i.
Lists == 0..MaxInv
\* The reference of a list literal [] built for a return value.
FreshList == -1

\* Arguments of the calls of Spec (ticks): a wait below the minimum,
\* polled in two long sleeps.
WaitTimes == {0}
Intervals == {10}
\* Arguments of the call of WaitSpec: negative, zero, the minimum, larger.
AllWaitTimes == {-20, 0, MinWait, MinWait + 3}
AllIntervals == {-1, 0, MinInterval, 8}

\* What the host passes to send: None, an object without a chain
\* attribute, a MessageChain with no component, a MessageChain with some.
MsgKinds == {"none", "malformed", "empty", "chain"}
\* The kinds the host sends in Spec.
SpecKinds == {"none", "malformed", "chain"}

\* A send operation: the bound method e.send of the event class
\* ("orig"), or the closure intercepted_send created for event e ("icpt").
NoSend == [k |-> "none", e |-> 0]
Orig(e) == [k |-> "orig", e |-> e]
Icpt(e) == [k |-> "icpt", e |-> e]

VARIABLES
    \* the event loop: the invocation whose task is running, 0 when the
    \* loop is free to run the host pipeline or to start/resume a task
    running,
    \* per invocation: position and locals of trigger_and_capture_command
    pc, max_wait_time, wait_interval, waited_time, ret,
    \* CommandTrigger fields
    captured_messages, original_send_method, target_event,
    \* list objects
    heap,
    \* synthetic events: send attribute, _has_send_oper, times put in the queue
    send, has_send_oper, queued,
    \* real deliveries performed by original send operations
    delivered,
    \* history: number of host send calls, the event and the return value
    \* of the last one, messages the host sent on event i while invocation
    \* i was suspended in its poll sleep, sleeps taken, buffer content at
    \* loop exit, the arguments passed, the step that raised, whether two
    \* invocations ever overlapped
    hostSends, lastSend, window, sleeps, exitBuf, req, raisedAt, everOverlap,
    \* per invocation: the executor method called, the command text, the
    \* forward_interval argument, the index of the forwarding loop, whether
    \* the executor's except clause caught an exception of the forwarder
    api, command, forward_interval, fwdIdx, caught,
    \* what the forwarder did on the target conversation, in order: the
    \* context.send_message calls and the pacing sleeps
    outbox,
    \* per invocation: the response mode read by the processor, the string
    \* CommandProcessor.execute_command returned, what the handler of
    \* /cmd2llm exec yielded
    response_mode, result, yielded,
    \* plugin configuration: basic_config.enable_plugin and
    \* auto_refresh_on_change, the command mappings in the order of the
    \* configuration list, the host's wake_prefix setting
    enable_plugin, auto_refresh, command_mappings, wake_prefix,
    \* per invocation: the args of the processor call and the command text
    \* the processor passes to the executor
    call_args, full_command,
    \* the host's LLM tool registry (function name -> command its handler
    \* is bound to) and DynamicLLMManager.registered_functions
    registry, registered_functions,
    \* the last management operation and how it went
    lastOp,
    \* per invocation: the LLM tool call that started it (function, bound
    \* command, command_text argument, response mode read by the handler)
    \* and what the handler returned to the LLM
    tool, toolRet,
    \* the configuration object DataManager works on:
    \* mapping_config.command_mappings (the persisted list of entries) and
    \* allow_duplicate_llm_function, basic_config.strict_validation, the
    \* section compat_config; the legacy JSON file; the last call of a
    \* DataManager method and what it returned
    config_mappings, allow_duplicate, strict_validation, compat, legacy_file,
    lastCall

invVars == <<pc, max_wait_time, wait_interval, waited_time, ret>>
trigVars == <<captured_messages, original_send_method, target_event>>
evVars == <<send, has_send_oper, queued>>
histVars == <<hostSends, lastSend, window, sleeps, exitBuf, req, raisedAt,
              everOverlap>>
fwdVars == <<api, command, forward_interval, fwdIdx, caught, outbox>>
procVars == <<response_mode, result, yielded>>
storeVars == <<config_mappings, allow_duplicate, strict_validation, compat,
               legacy_file, lastCall>>
cfgVars == <<enable_plugin, auto_refresh, command_mappings, wake_prefix,
             storeVars>>
regVars == <<registry, registered_functions, lastOp>>
toolVars == <<tool, toolRet>>
textVars == <<call_args, full_command>>
vars == <<running, invVars, trigVars, heap, evVars, delivered, histVars,
          fwdVars, procVars, cfgVars, textVars, regVars, toolVars>>
callVars == <<running, invVars, trigVars, heap, evVars, delivered, histVars,
              fwdVars, procVars, textVars, toolVars>>

\* ------------------------------------------------------------ helpers
\* Python's max(a, b) for two numbers.
Max2(a, b) == IF b > a THEN b ELSE a

\* A clamp that lets a zero wait through.
ClampWaitZero(mw) == Max2(mw, 0)
\* command_trigger.py:96
ClampWait(mw) == Max2(mw, MinWait)

\* A clamp that lets any non-negative interval through.
ClampIntervalZero(iv) == Max2(iv, 0)
\* command_trigger.py:97
ClampInterval(iv) == Max2(iv, MinInterval)

\* A loop that sleeps once more when the wait is exactly used up.
LoopContinuesLe(w, mw) == w <= mw
\* command_trigger.py:100, the loop condition
LoopContinues(w, mw) == w < mw

\* An interceptor that records a message only when it has a chain.
CaptureMessageChainOnly(buf, m) ==
    IF m.kind \in {"empty", "chain"} THEN Append(buf, m) ELSE buf
\* An interceptor that puts the newest message first.
CaptureMessagePrepend(buf, m) ==
    IF m.kind # "none" THEN <<m>> \o buf ELSE buf
\* command_trigger.py:31-40, the buffer after intercepted_send(m)
CaptureMessage(buf, m) ==
    IF m.kind # "none" /\ m.kind \in {"empty", "chain"}
    THEN Append(buf, m)
    ELSE IF m.kind # "none" THEN Append(buf, m) ELSE buf

\* An interceptor that leaves the flag alone.
SetHasSendOperNever(flags, e) == flags
\* command_trigger.py:43, target_event._has_send_oper = True
SetHasSendOper(flags, e) == [flags EXCEPT ![e] = TRUE]

\* command_trigger.py:25-26
SavedOriginal(osm, cur) == IF osm = NoSend THEN cur ELSE osm

\* A restore that assigns without looking at what was saved.
RestoredSendUnguarded(snd, osm, te) ==
    IF te # 0 THEN [snd EXCEPT ![te] = osm] ELSE snd
\* command_trigger.py:50-54, the events' send attributes after
\* restore_message_sender()
RestoredSend(snd, osm, te) ==
    IF osm # NoSend /\ te # 0 THEN [snd EXCEPT ![te] = osm] ELSE snd

\* A result that reports success whenever the loop was left.
TriggerResultAlwaysOk(ref, buf) == [ok |-> TRUE, batch |-> ref, snap |-> buf]
\* command_trigger.py:112-118, the value returned after the loop; snap is
\* the content of the returned list at the moment of the return.
TriggerResult(ref, buf) ==
    IF buf # <<>>
    THEN [ok |-> TRUE, batch |-> ref, snap |-> buf]
    ELSE [ok |-> FALSE, batch |-> FreshList, snap |-> <<>>]

\* command_trigger.py:128
FailureResult == [ok |-> FALSE, batch |-> FreshList, snap |-> <<>>]
NoResult == [ok |-> FALSE, batch |-> FreshList - 1, snap |-> <<>>]

Active(i) == pc[i] \notin {"idle", "returned"}

\* ------------------------------------------------------------ initial state
\* commands that can be mapped and names of LLM functions
MapCommands == {"status", "help"}
Functions == {"f", "g"}
NoCommand == ""
NoOp == [op |-> "none", cmd |-> NoCommand, fn |-> "", ok |-> FALSE,
         clean |-> TRUE]
NoTool == [fn |-> "", bound |-> NoCommand, asked |-> NoCommand, mode |-> "none"]

\* wake_prefix as the host configuration holds it: absent, a string, a
\* list of strings, or a value of another type
DefaultWakePrefix == [t |-> "list", v |-> <<"/">>]

\* compat_config after a first construction with the defaults of
\* _ensure_config_defaults, no legacy file, no DataManager call yet
Compat(auto, keep, once) ==
    [auto_migrate_legacy_json |-> auto, keep_legacy_backup |-> keep,
     migration_once_flag |-> once]
NoLegacy == [exists |-> FALSE, data |-> <<>>]
NoCall ==
    [op |-> "none", seq |-> 0, cmd |-> "", fn |-> "", desc |-> "",
     flag |-> FALSE, ok |-> FALSE, why |-> "", ret |-> <<>>]
InitStoreConfig ==
    /\ allow_duplicate = TRUE
    /\ strict_validation = FALSE
    /\ compat = Compat(TRUE, TRUE, TRUE)
    /\ legacy_file = NoLegacy
    /\ lastCall = NoCall

\* the plugin as installed: enabled, auto refresh on, no mapping, nothing
\* registered
InitConfig ==
    /\ enable_plugin = TRUE
    /\ auto_refresh = TRUE
    /\ command_mappings = <<>>
    /\ config_mappings = <<>>
    /\ InitStoreConfig
    /\ wake_prefix = DefaultWakePrefix
    /\ registry = [f \in Functions |-> NoCommand]
    /\ registered_functions = {}
    /\ lastOp = NoOp

InitCalls ==
    /\ running = 0
    /\ pc = [i \in Invs |-> "idle"]
    /\ max_wait_time = [i \in Invs |-> 0]
    /\ wait_interval = [i \in Invs |-> 0]
    /\ waited_time = [i \in Invs |-> 0]
    /\ ret = [i \in Invs |-> NoResult]
    /\ captured_messages = 0
    /\ original_send_method = NoSend
    /\ target_event = 0
    /\ heap = [l \in Lists |-> <<>>]
    /\ send = [e \in Events |-> NoSend]
    /\ has_send_oper = [e \in Events |-> FALSE]
    /\ queued = [e \in Events |-> 0]
    /\ delivered = <<>>
    /\ hostSends = 0
    /\ lastSend = [e |-> 0, result |-> "none"]
    /\ req = [i \in Invs |-> [mw |-> 0, iv |-> 0]]
    /\ raisedAt = [i \in Invs |-> "none"]
    /\ window = [i \in Invs |-> <<>>]
    /\ sleeps = [i \in Invs |-> 0]
    /\ exitBuf = [i \in Invs |-> <<>>]
    /\ everOverlap = FALSE
    /\ api = [i \in Invs |-> "none"]
    /\ command = [i \in Invs |-> ""]
    /\ forward_interval = [i \in Invs |-> 0]
    /\ fwdIdx = [i \in Invs |-> 0]
    /\ caught = [i \in Invs |-> FALSE]
    /\ outbox = <<>>
    /\ response_mode = [i \in Invs |-> "none"]
    /\ result = [i \in Invs |-> <<>>]
    /\ yielded = [i \in Invs |-> <<>>]
    /\ call_args = [i \in Invs |-> ""]
    /\ full_command = [i \in Invs |-> ""]
    /\ tool = [i \in Invs |-> NoTool]
    /\ toolRet = [i \in Invs |-> <<>>]

Init == InitCalls /\ InitConfig

\* ------------------------------------------------------------ actions
\* command_executor.py:77-84, what execute_command_with_options returns
\* for the value r of trigger_and_capture_command.
ExecutorResult(r) == IF r.ok THEN r ELSE FailureResult

\* execute_command_with_options(capture_timeout = mw, wait_interval = iv)
\* enters trigger_and_capture_command, whose create_command_event returns
\* a new event carrying its own send operation.  Invocations are numbered
\* in call order.  A call can start whenever the event loop is free, also
\* while an earlier call is suspended in its poll sleep.
Call(i, mw, iv) ==
    /\ UNCHANGED <<cfgVars, textVars, regVars, toolVars>>
    /\ UNCHANGED procVars
    /\ api' = [api EXCEPT ![i] = "capture"]
    /\ UNCHANGED <<command, forward_interval, fwdIdx, caught, outbox>>
    /\ running = 0
    /\ pc[i] = "idle"
    /\ \A j \in Invs : j < i => pc[j] # "idle"
    /\ running' = i
    /\ pc' = [pc EXCEPT ![i] = "created"]
    /\ max_wait_time' = [max_wait_time EXCEPT ![i] = mw]
    /\ wait_interval' = [wait_interval EXCEPT ![i] = iv]
    /\ req' = [req EXCEPT ![i] = [mw |-> mw, iv |-> iv]]
    /\ send' = [send EXCEPT ![i] = Orig(i)]
    /\ everOverlap' = (everOverlap \/ \E j \in Invs : j # i /\ Active(j))
    /\ UNCHANGED <<waited_time, ret, trigVars, heap, has_send_oper, queued,
                   delivered, hostSends, lastSend, window, sleeps, exitBuf,
                   raisedAt>>

\* The same call when create_command_event raises: no event exists.
CallCreateFails(i, mw, iv) ==
    /\ UNCHANGED <<cfgVars, textVars, regVars, toolVars>>
    /\ UNCHANGED procVars
    /\ api' = [api EXCEPT ![i] = "capture"]
    /\ UNCHANGED <<command, forward_interval, fwdIdx, caught, outbox>>
    /\ running = 0
    /\ pc[i] = "idle"
    /\ \A j \in Invs : j < i => pc[j] # "idle"
    /\ running' = i
    /\ pc' = [pc EXCEPT ![i] = "except"]
    /\ max_wait_time' = [max_wait_time EXCEPT ![i] = mw]
    /\ wait_interval' = [wait_interval EXCEPT ![i] = iv]
    /\ req' = [req EXCEPT ![i] = [mw |-> mw, iv |-> iv]]
    /\ raisedAt' = [raisedAt EXCEPT ![i] = "create"]
    /\ everOverlap' = (everOverlap \/ \E j \in Invs : j # i /\ Active(j))
    /\ UNCHANGED <<waited_time, ret, trigVars, heap, evVars,
                   delivered, hostSends, lastSend, window, sleeps, exitBuf>>

\* target_event.send = intercepted_send
InstalledSendNever(snd, e) == snd
InstalledSend(snd, e) == [snd EXCEPT ![e] = Icpt(e)]

\* setup_message_interceptor(fake_event)
Install(i) ==
    /\ UNCHANGED <<cfgVars, textVars, regVars, toolVars>>
    /\ UNCHANGED procVars
    /\ UNCHANGED fwdVars
    /\ running = i
    /\ pc[i] = "created"
    /\ target_event' = i
    /\ captured_messages' = i
    /\ original_send_method' = SavedOriginal(original_send_method, send[i])
    /\ send' = InstalledSend(send, i)
    /\ pc' = [pc EXCEPT ![i] = "intercepting"]
    /\ UNCHANGED <<running, max_wait_time, wait_interval, waited_time, ret,
                   heap, has_send_oper, queued, delivered, histVars>>

\* setup_message_interceptor raises on the event's send attribute, after
\* lines 21-22 and before the send operation is replaced.
InstallFails(i) ==
    /\ UNCHANGED <<cfgVars, textVars, regVars, toolVars>>
    /\ UNCHANGED procVars
    /\ UNCHANGED fwdVars
    /\ running = i
    /\ pc[i] = "created"
    /\ target_event' = i
    /\ captured_messages' = i
    /\ pc' = [pc EXCEPT ![i] = "except"]
    /\ raisedAt' = [raisedAt EXCEPT ![i] = "install"]
    /\ UNCHANGED <<running, max_wait_time, wait_interval, waited_time, ret,
                   original_send_method, heap, evVars, delivered, hostSends,
                   lastSend, window, sleeps, exitBuf, req, everOverlap>>

\* put_nowait(fake_event), then the clamps and waited_time = 0.0
Submit(i) ==
    /\ UNCHANGED <<cfgVars, textVars, regVars, toolVars>>
    /\ UNCHANGED procVars
    /\ UNCHANGED fwdVars
    /\ running = i
    /\ pc[i] = "intercepting"
    /\ queued' = [queued EXCEPT ![i] = @ + 1]
    /\ max_wait_time' = [max_wait_time EXCEPT ![i] = ClampWait(@)]
    /\ wait_interval' = [wait_interval EXCEPT ![i] = ClampInterval(@)]
    /\ waited_time' = [waited_time EXCEPT ![i] = 0]
    /\ pc' = [pc EXCEPT ![i] = "loop"]
    /\ UNCHANGED <<running, ret, trigVars, heap, send, has_send_oper,
                   delivered, histVars>>

\* get_event_queue() or put_nowait raises.
SubmitFails(i) ==
    /\ UNCHANGED <<cfgVars, textVars, regVars, toolVars>>
    /\ UNCHANGED procVars
    /\ UNCHANGED fwdVars
    /\ running = i
    /\ pc[i] = "intercepting"
    /\ pc' = [pc EXCEPT ![i] = "except"]
    /\ raisedAt' = [raisedAt EXCEPT ![i] = "submit"]
    /\ UNCHANGED <<running, max_wait_time, wait_interval, waited_time, ret,
                   trigVars, heap, evVars, delivered, hostSends, lastSend,
                   window, sleeps, exitBuf, req, everOverlap>>

\* while waited_time < max_wait_time: the task suspends in asyncio.sleep
\* or leaves the loop.
LoopTest(i) ==
    /\ UNCHANGED <<cfgVars, textVars, regVars, toolVars>>
    /\ UNCHANGED procVars
    /\ UNCHANGED fwdVars
    /\ running = i
    /\ pc[i] = "loop"
    /\ IF LoopContinues(waited_time[i], max_wait_time[i])
       THEN /\ pc' = [pc EXCEPT ![i] = "waiting"]
            /\ running' = 0
            /\ UNCHANGED exitBuf
       ELSE /\ pc' = [pc EXCEPT ![i] = "exited"]
            /\ exitBuf' = [exitBuf EXCEPT ![i] = heap[captured_messages]]
            /\ UNCHANGED running
    /\ UNCHANGED <<max_wait_time, wait_interval, waited_time, ret, trigVars,
                   heap, evVars, delivered, hostSends, lastSend, window,
                   sleeps, req, raisedAt, everOverlap>>

\* The sleep is over: waited_time += wait_interval, then the emptiness
\* check of self.captured_messages and the break.
Wake(i) ==
    /\ UNCHANGED <<cfgVars, textVars, regVars, toolVars>>
    /\ UNCHANGED procVars
    /\ UNCHANGED fwdVars
    /\ running = 0
    /\ pc[i] = "waiting"
    /\ running' = i
    /\ waited_time' = [waited_time EXCEPT ![i] = @ + wait_interval[i]]
    /\ sleeps' = [sleeps EXCEPT ![i] = @ + 1]
    /\ IF heap[captured_messages] # <<>>
       THEN /\ pc' = [pc EXCEPT ![i] = "exited"]
            /\ exitBuf' = [exitBuf EXCEPT ![i] = heap[captured_messages]]
       ELSE /\ pc' = [pc EXCEPT ![i] = "loop"]
            /\ UNCHANGED exitBuf
    /\ UNCHANGED <<max_wait_time, wait_interval, ret, trigVars, heap, evVars,
                   delivered, hostSends, lastSend, window, req, raisedAt,
                   everOverlap>>

\* restore_message_sender() after the loop
Restore(i) ==
    /\ UNCHANGED <<cfgVars, textVars, regVars, toolVars>>
    /\ UNCHANGED procVars
    /\ UNCHANGED fwdVars
    /\ running = i
    /\ pc[i] = "exited"
    /\ send' = RestoredSend(send, original_send_method, target_event)
    /\ pc' = [pc EXCEPT ![i] = "restored"]
    /\ UNCHANGED <<running, max_wait_time, wait_interval, waited_time, ret,
                   trigVars, heap, has_send_oper, queued, delivered, histVars>>

\* the return statements of lines 112-118, passed on by the executor
Return(i) ==
    /\ UNCHANGED <<cfgVars, textVars, regVars, toolVars>>
    /\ UNCHANGED procVars
    /\ api[i] \in {"capture", "default"}
    /\ UNCHANGED fwdVars
    /\ running = i
    /\ pc[i] = "restored"
    /\ ret' = [ret EXCEPT ![i] = ExecutorResult(
                  TriggerResult(captured_messages, heap[captured_messages]))]
    /\ pc' = [pc EXCEPT ![i] = "returned"]
    /\ running' = 0
    /\ UNCHANGED <<max_wait_time, wait_interval, waited_time, trigVars, heap,
                   evVars, delivered, histVars>>

\* the except branch: restore_message_sender(), return False, []
Except(i) ==
    /\ UNCHANGED <<cfgVars, textVars, regVars, toolVars>>
    /\ UNCHANGED procVars
    /\ api[i] \in {"capture", "default"}
    /\ UNCHANGED fwdVars
    /\ running = i
    /\ pc[i] = "except"
    /\ send' = RestoredSend(send, original_send_method, target_event)
    /\ ret' = [ret EXCEPT ![i] = ExecutorResult(FailureResult)]
    /\ pc' = [pc EXCEPT ![i] = "returned"]
    /\ running' = 0
    /\ UNCHANGED <<max_wait_time, wait_interval, waited_time, trigVars, heap,
                   has_send_oper, queued, delivered, histVars>>

\* The message object of the host's next send call; n numbers the calls.
HostMsg(kind) == [kind |-> kind, n |-> hostSends + 1]

\* The host pipeline calls e.send(m) on an event it took from the queue.
\* It runs on the event loop, so only while no invoking task is running;
\* it may call send any number of times, also after the invocation of e
\* has returned.
HostSend(e, kind) ==
    /\ UNCHANGED <<cfgVars, textVars, regVars, toolVars>>
    /\ UNCHANGED procVars
    /\ UNCHANGED fwdVars
    /\ running = 0
    /\ queued[e] > 0
    /\ hostSends < MaxSends
    /\ hostSends' = hostSends + 1
    /\ window' = [window EXCEPT ![e] =
                    IF pc[e] = "waiting" THEN Append(@, HostMsg(kind)) ELSE @]
    /\ IF send[e].k = "icpt"
       THEN \* intercepted_send of the closure made for event send[e].e
            /\ heap' = [heap EXCEPT ![captured_messages] =
                          CaptureMessage(@, HostMsg(kind))]
            /\ has_send_oper' = SetHasSendOper(has_send_oper, send[e].e)
            /\ lastSend' = [e |-> e, result |-> "True"]
            /\ UNCHANGED delivered
       ELSE \* the original send of event send[e].e: a real delivery
            /\ delivered' = Append(delivered,
                  [on |-> e, via |-> send[e].e, msg |-> HostMsg(kind)])
            /\ lastSend' = [e |-> e, result |-> "original"]
            /\ UNCHANGED <<heap, has_send_oper>>
    /\ UNCHANGED <<running, invVars, trigVars, send, queued, sleeps, exitBuf,
                   req, raisedAt, everOverlap>>

\* The steps of the task of invocation i once it has been called.
Step(i) ==
    \/ Install(i)
    \/ InstallFails(i)
    \/ Submit(i)
    \/ SubmitFails(i)
    \/ LoopTest(i)
    \/ Wake(i)
    \/ Restore(i)
    \/ Return(i)
    \/ Except(i)

Next ==
    \/ \E i \in Invs, mw \in WaitTimes, iv \in Intervals : Call(i, mw, iv)
    \/ \E i \in Invs, mw \in WaitTimes, iv \in Intervals :
          CallCreateFails(i, mw, iv)
    \/ \E i \in Invs : Step(i)
    \/ \E e \in Events, kind \in SpecKinds : HostSend(e, kind)

Spec == Init /\ [][Next]_vars

\* One call with any arguments, for the properties of the wait loop.
NextWait ==
    \/ \E mw \in AllWaitTimes, iv \in AllIntervals : Call(1, mw, iv)
    \/ Step(1)
    \/ \E kind \in MsgKinds : HostSend(1, kind)

WaitSpec == Init /\ [][NextWait]_vars

\* The event loop resumes a task whose sleep is over and runs it to its
\* next await, so the steps of the called task are weakly fair; nothing
\* obliges the host to send.
WaitLiveSpec == WaitSpec /\ WF_vars(Step(1))

\* ---------------------------------------------------------- forwarder
\* trigger_and_forward_command, called through execute_and_forward and
\* execute_and_forward_with_options.

Commands == {"/status", "/help"}               \* command texts
ForwardIntervals == {-1, 10}                   \* forward_interval, in ticks

NoMsg == [kind |-> "none", n |-> 0]

\* the list the forwarder's local captured_messages names
BatchList(i) ==
    IF ret[i].batch \in Lists THEN heap[ret[i].batch] ELSE <<>>

\* len(captured_msg.chain) of the log line: the message needs a chain
HasChain(m) == m.kind \in {"empty", "chain"}

\* the pacing condition after the k-th of n deliveries (k counted from 1)
NeedsPace(n, k) == n > 1 /\ k < n

\* the text of the failure notice: a fixed sentence around the command
\* ("command <command> failed, no response received")
NoticeTextAnonymous(cmd) == <<"command", " failed, no response received">>
NoticeText(cmd) == <<"command ", cmd, " failed, no response received">>

\* except Exception of the executor: every exception of the forwarder
ExecutorCatchesNothing(x) == FALSE
ExecutorCatches(x) == x \in {"forward_log", "forward_send", "notice_send"}

Delivery(i, m, ok) ==
    [by |-> i, kind |-> "forward", msg |-> m, text |-> <<>>, dur |-> 0,
     ok |-> ok]
Notice(i, cmd, ok) ==
    [by |-> i, kind |-> "notice", msg |-> NoMsg, text |-> NoticeText(cmd),
     dur |-> 0, ok |-> ok]
Pace(i, fi) ==
    [by |-> i, kind |-> "pace", msg |-> NoMsg, text |-> <<>>,
     dur |-> Max2(fi, 0), ok |-> TRUE]

\* execute_and_forward_with_options(...) up to create_command_event
CallForward(i, cmd, mw, iv, fi) ==
    /\ UNCHANGED <<cfgVars, textVars, regVars, toolVars>>
    /\ UNCHANGED procVars
    /\ running = 0
    /\ pc[i] = "idle"
    /\ \A j \in Invs : j < i => pc[j] # "idle"
    /\ running' = i
    /\ pc' = [pc EXCEPT ![i] = "created"]
    /\ api' = [api EXCEPT ![i] = "forward"]
    /\ command' = [command EXCEPT ![i] = cmd]
    /\ forward_interval' = [forward_interval EXCEPT ![i] = fi]
    /\ max_wait_time' = [max_wait_time EXCEPT ![i] = mw]
    /\ wait_interval' = [wait_interval EXCEPT ![i] = iv]
    /\ req' = [req EXCEPT ![i] = [mw |-> mw, iv |-> iv]]
    /\ send' = [send EXCEPT ![i] = Orig(i)]
    /\ everOverlap' = (everOverlap \/ \E j \in Invs : j # i /\ Active(j))
    /\ UNCHANGED <<waited_time, ret, trigVars, heap, has_send_oper, queued,
                   delivered, hostSends, lastSend, window, sleeps, exitBuf,
                   raisedAt, fwdIdx, caught, outbox>>

\* the return statements of lines 112-118, received by the forwarder
ReturnToForwarder(i) ==
    /\ UNCHANGED <<cfgVars, textVars, regVars, toolVars>>
    /\ UNCHANGED procVars
    /\ api[i] = "forward"
    /\ running = i
    /\ pc[i] = "restored"
    /\ ret' = [ret EXCEPT ![i] =
                  TriggerResult(captured_messages, heap[captured_messages])]
    /\ pc' = [pc EXCEPT ![i] = "forward"]
    /\ UNCHANGED <<running, max_wait_time, wait_interval, waited_time,
                   trigVars, heap, evVars, delivered, histVars, fwdVars>>

\* the except branch of the capture, received by the forwarder
ExceptToForwarder(i) ==
    /\ UNCHANGED <<cfgVars, textVars, regVars, toolVars>>
    /\ UNCHANGED procVars
    /\ api[i] = "forward"
    /\ running = i
    /\ pc[i] = "except"
    /\ send' = RestoredSend(send, original_send_method, target_event)
    /\ ret' = [ret EXCEPT ![i] = FailureResult]
    /\ pc' = [pc EXCEPT ![i] = "forward"]
    /\ UNCHANGED <<running, max_wait_time, wait_interval, waited_time,
                   trigVars, heap, has_send_oper, queued, delivered, histVars,
                   fwdVars>>

\* if success and captured_messages: ... else: ...
FwdBranch(i) ==
    /\ UNCHANGED <<cfgVars, textVars, regVars, toolVars>>
    /\ UNCHANGED procVars
    /\ running = i
    /\ pc[i] = "forward"
    /\ IF ret[i].ok /\ BatchList(i) # <<>>
          THEN /\ pc' = [pc EXCEPT ![i] = "forward_loop"]
               /\ fwdIdx' = [fwdIdx EXCEPT ![i] = 1]
          ELSE /\ pc' = [pc EXCEPT ![i] = "forward_notice"]
               /\ UNCHANGED fwdIdx
    /\ UNCHANGED <<running, max_wait_time, wait_interval, waited_time, ret,
                   trigVars, heap, evVars, delivered, histVars, api, command,
                   forward_interval, caught, outbox>>

\* one turn of the for loop up to its await: the loop ends, the log line
\* raises, or context.send_message is awaited
FwdNext(i) ==
    /\ UNCHANGED <<cfgVars, textVars, regVars, toolVars>>
    /\ UNCHANGED procVars
    /\ running = i
    /\ pc[i] = "forward_loop"
    /\ IF fwdIdx[i] > Len(BatchList(i))
          THEN /\ pc' = [pc EXCEPT ![i] = "returned"]
               /\ running' = 0
               /\ UNCHANGED raisedAt
          ELSE IF ~HasChain(BatchList(i)[fwdIdx[i]])
          THEN /\ pc' = [pc EXCEPT ![i] = "forward_except"]
               /\ raisedAt' = [raisedAt EXCEPT ![i] = "forward_log"]
               /\ UNCHANGED running
          ELSE /\ pc' = [pc EXCEPT ![i] = "forward_sending"]
               /\ running' = 0
               /\ UNCHANGED raisedAt
    /\ UNCHANGED <<max_wait_time, wait_interval, waited_time, ret, trigVars,
                   heap, evVars, delivered, hostSends, lastSend, window,
                   sleeps, exitBuf, req, everOverlap, fwdVars>>

\* context.send_message(unified_msg_origin, captured_msg) completes or
\* raises; then the pacing condition
FwdDelivered(i, ok) ==
    /\ UNCHANGED <<cfgVars, textVars, regVars, toolVars>>
    /\ UNCHANGED procVars
    /\ running = 0
    /\ pc[i] = "forward_sending"
    /\ running' = i
    /\ outbox' = Append(outbox, Delivery(i, BatchList(i)[fwdIdx[i]], ok))
    /\ IF ~ok
          THEN /\ pc' = [pc EXCEPT ![i] = "forward_except"]
               /\ raisedAt' = [raisedAt EXCEPT ![i] = "forward_send"]
               /\ UNCHANGED fwdIdx
          ELSE IF NeedsPace(Len(BatchList(i)), fwdIdx[i])
          THEN /\ pc' = [pc EXCEPT ![i] = "forward_pace"]
               /\ UNCHANGED <<raisedAt, fwdIdx>>
          ELSE /\ pc' = [pc EXCEPT ![i] = "forward_loop"]
               /\ fwdIdx' = [fwdIdx EXCEPT ![i] = @ + 1]
               /\ UNCHANGED raisedAt
    /\ UNCHANGED <<max_wait_time, wait_interval, waited_time, ret, trigVars,
                   heap, evVars, delivered, hostSends, lastSend, window,
                   sleeps, exitBuf, req, everOverlap, api, command,
                   forward_interval, caught>>

\* await asyncio.sleep(max(forward_interval, 0.0))
FwdPace(i) ==
    /\ UNCHANGED <<cfgVars, textVars, regVars, toolVars>>
    /\ UNCHANGED procVars
    /\ running = i
    /\ pc[i] = "forward_pace"
    /\ outbox' = Append(outbox, Pace(i, forward_interval[i]))
    /\ pc' = [pc EXCEPT ![i] = "forward_sleeping"]
    /\ running' = 0
    /\ UNCHANGED <<max_wait_time, wait_interval, waited_time, ret, trigVars,
                   heap, evVars, delivered, histVars, api, command,
                   forward_interval, fwdIdx, caught>>

\* the pacing sleep is over: the next turn of the loop
FwdPaceWake(i) ==
    /\ UNCHANGED <<cfgVars, textVars, regVars, toolVars>>
    /\ UNCHANGED procVars
    /\ running = 0
    /\ pc[i] = "forward_sleeping"
    /\ running' = i
    /\ fwdIdx' = [fwdIdx EXCEPT ![i] = @ + 1]
    /\ pc' = [pc EXCEPT ![i] = "forward_loop"]
    /\ UNCHANGED <<max_wait_time, wait_interval, waited_time, ret, trigVars,
                   heap, evVars, delivered, histVars, api, command,
                   forward_interval, caught, outbox>>

\* the else branch: build the failure notice and await its delivery
FwdNotice(i) ==
    /\ UNCHANGED <<cfgVars, textVars, regVars, toolVars>>
    /\ UNCHANGED procVars
    /\ running = i
    /\ pc[i] = "forward_notice"
    /\ pc' = [pc EXCEPT ![i] = "forward_noticing"]
    /\ running' = 0
    /\ UNCHANGED <<max_wait_time, wait_interval, waited_time, ret, trigVars,
                   heap, evVars, delivered, histVars, fwdVars>>

\* the delivery of the notice completes (the call returns) or raises
FwdNoticeDelivered(i, ok) ==
    /\ UNCHANGED <<cfgVars, textVars, regVars, toolVars>>
    /\ UNCHANGED procVars
    /\ running = 0
    /\ pc[i] = "forward_noticing"
    /\ outbox' = Append(outbox, Notice(i, command[i], ok))
    /\ IF ok
          THEN /\ pc' = [pc EXCEPT ![i] = "returned"]
               /\ UNCHANGED <<running, raisedAt>>
          ELSE /\ pc' = [pc EXCEPT ![i] = "forward_except"]
               /\ raisedAt' = [raisedAt EXCEPT ![i] = "notice_send"]
               /\ running' = i
    /\ UNCHANGED <<max_wait_time, wait_interval, waited_time, ret, trigVars,
                   heap, evVars, delivered, hostSends, lastSend, window,
                   sleeps, exitBuf, req, everOverlap, api, command,
                   forward_interval, fwdIdx, caught>>

\* except Exception as e of execute_and_forward[_with_options]: log only
FwdExcept(i) ==
    /\ UNCHANGED <<cfgVars, textVars, regVars, toolVars>>
    /\ UNCHANGED procVars
    /\ running = i
    /\ pc[i] = "forward_except"
    /\ IF ExecutorCatches(raisedAt[i])
          THEN /\ caught' = [caught EXCEPT ![i] = TRUE]
               /\ pc' = [pc EXCEPT ![i] = "returned"]
          ELSE /\ pc' = [pc EXCEPT ![i] = "raised"]
               /\ UNCHANGED caught
    /\ running' = 0
    /\ UNCHANGED <<max_wait_time, wait_interval, waited_time, ret, trigVars,
                   heap, evVars, delivered, histVars, api, command,
                   forward_interval, fwdIdx, outbox>>

FwdStep(i) ==
    \/ Install(i)
    \/ InstallFails(i)
    \/ Submit(i)
    \/ SubmitFails(i)
    \/ LoopTest(i)
    \/ Wake(i)
    \/ Restore(i)
    \/ ReturnToForwarder(i)
    \/ ExceptToForwarder(i)
    \/ FwdBranch(i)
    \/ FwdNext(i)
    \/ FwdPace(i)
    \/ FwdPaceWake(i)
    \/ FwdNotice(i)
    \/ FwdExcept(i)

\* One forwarding call; the host sends on the synthetic event and the
\* platform completes or fails each real delivery.
NextForward ==
    \/ \E cmd \in Commands, mw \in WaitTimes, iv \in Intervals,
          fi \in ForwardIntervals : CallForward(1, cmd, mw, iv, fi)
    \/ FwdStep(1)
    \/ \E ok \in BOOLEAN : FwdDelivered(1, ok)
    \/ \E ok \in BOOLEAN : FwdNoticeDelivered(1, ok)
    \/ \E kind \in MsgKinds : HostSend(1, kind)

ForwardSpec == Init /\ [][NextForward]_vars

\* ------------------------------------------------------ default arguments
\* execute_command passes no timing arguments, so the trigger runs with the
\* defaults of its signature: 20.0 s and 0.1 s, in ticks of 0.05 s.
DefaultWait == 400
DefaultInterval == 2

DefaultArgsMinimum == [mw |-> MinWait, iv |-> MinInterval]
DefaultArgs == [mw |-> DefaultWait, iv |-> DefaultInterval]

\* host messages of the runs with the default arguments
DefaultKinds == {"none", "chain"}

\* execute_command(...) up to create_command_event
CallDefault(i) ==
    /\ UNCHANGED <<cfgVars, textVars, regVars, toolVars>>
    /\ UNCHANGED procVars
    /\ running = 0
    /\ pc[i] = "idle"
    /\ \A j \in Invs : j < i => pc[j] # "idle"
    /\ running' = i
    /\ pc' = [pc EXCEPT ![i] = "created"]
    /\ api' = [api EXCEPT ![i] = "default"]
    /\ max_wait_time' = [max_wait_time EXCEPT ![i] = DefaultArgs.mw]
    /\ wait_interval' = [wait_interval EXCEPT ![i] = DefaultArgs.iv]
    /\ req' = [req EXCEPT ![i] = DefaultArgs]
    /\ send' = [send EXCEPT ![i] = Orig(i)]
    /\ everOverlap' = (everOverlap \/ \E j \in Invs : j # i /\ Active(j))
    /\ UNCHANGED <<waited_time, ret, trigVars, heap, has_send_oper, queued,
                   delivered, hostSends, lastSend, window, sleeps, exitBuf,
                   raisedAt, command, forward_interval, fwdIdx, caught,
                   outbox>>

\* One call, either execute_command or execute_command_with_options with
\* capture_timeout = 20.0 and wait_interval = 0.1.
NextDefault ==
    \/ CallDefault(1)
    \/ Call(1, DefaultWait, DefaultInterval)
    \/ Step(1)
    \/ \E kind \in DefaultKinds : HostSend(1, kind)

DefaultSpec == Init /\ [][NextDefault]_vars

\* ---------------------------------------------------------- processor
\* CommandProcessor.execute_command, awaited by the LLM tool handlers, and
\* the handler of /cmd2llm exec.

\* wait_interval = min(0.5, max(0.05, capture_timeout / 200)), in ticks
MaxProcInterval == 10
ProcDivisor == 200
Min2(a, b) == IF b < a THEN b ELSE a
ProcInterval(to) == Min2(MaxProcInterval, Max2(to \div ProcDivisor, MinInterval))

\* values of get_capture_timeout() (at least 1 s), get_forward_interval()
\* and get_response_mode()
ProcTimeouts == {MinWait, 4000}
ProcForwardIntervals == {10}
ResponseModes == {"forward_and_text", "text_only", "forward_only"}
ForwardingModesAll == {"forward_and_text", "text_only", "forward_only"}
ForwardingModes == {"forward_and_text", "forward_only"}
ProcCommands == {"status"}

\* str(e) of an exception raised at step x
ExcText(x) == "exception text of " \o x

\* the text the processor extracts from a captured message, "" for none
MsgText(m) == IF m.kind = "chain" THEN "text " \o ToString(m.n) ELSE ""
RECURSIVE ResponseTexts(_)
ResponseTexts(b) ==
    IF b = <<>> THEN <<>>
    ELSE (IF MsgText(Head(b)) # "" THEN <<MsgText(Head(b))>> ELSE <<>>)
            \o ResponseTexts(Tail(b))

\* the strings execute_command returns, as sequences of their parts
ResultDisabled == <<"plugin disabled, enable basic_config.enable_plugin">>
ResultUnmapped(cmd) == <<"error: no mapping for command '", cmd, "'">>
ResultForwarded(cmd) ==
    <<"command '", cmd, "' ", "succeeded, result forwarded">>
ResultTexts(cmd, texts) == <<"command '", cmd, "' ", "result:">> \o texts
ResultNoText(cmd) == <<"command '", cmd, "' ", "succeeded without text">>
ResultFailed(cmd) == <<"command '", cmd, "' ", "failed or timed out">>
ResultError(e) == <<"error while executing command: ", e>>

\* the message the processor forwards: a header naming the command, then
\* the components of the captured message
ProcDelivery(i, m, ok) ==
    [by |-> i, kind |-> "forward", msg |-> m,
     text |-> <<"[command] ", command[i]>>, dur |-> 0, ok |-> ok]

\* DataManager.get_mapping: the mapping of the command, nothing when the
\* command has none or, with enabled_only, when it is disabled
NoMapping ==
    [cmd |-> NoCommand, fn |-> "", desc |-> "", enabled |-> FALSE, group |-> ""]
Entry(cmd, fn, desc, enabled, group) ==
    [cmd |-> cmd, fn |-> fn, desc |-> desc, enabled |-> enabled,
     group |-> group]
Mapping(cmd, fn, enabled) == Entry(cmd, fn, "", enabled, "default")
GetMappingIgnoringEnabled(maps, cmd, enabled_only) ==
    IF \E k \in 1..Len(maps) : maps[k].cmd = cmd
        THEN maps[CHOOSE k \in 1..Len(maps) : maps[k].cmd = cmd]
        ELSE NoMapping
GetMapping(maps, cmd, enabled_only) ==
    IF \E k \in 1..Len(maps) :
          maps[k].cmd = cmd /\ (enabled_only => maps[k].enabled)
        THEN maps[CHOOSE k \in 1..Len(maps) : maps[k].cmd = cmd]
        ELSE NoMapping

\* lines 51-57: why execute_command refuses the command, "none" when it
\* goes on
Rejection(cmd) ==
    IF ~enable_plugin THEN "disabled"
    ELSE IF GetMapping(command_mappings, cmd, TRUE) = NoMapping THEN "unmapped"
    ELSE "none"

\* _resolve_wake_prefixes: the list of prefixes of the configuration, a
\* single string as a list of one, ["/"] for anything else and for an
\* empty list
ResolveWakePrefixes(raw) ==
    LET prefixes == IF raw.t \in {"str", "list"} THEN raw.v ELSE <<"/">>
    IN  IF prefixes = <<>> THEN <<"/">> ELSE prefixes

StartsWith(s, p) == Len(p) <= Len(s) /\ SubSeq(s, 1, Len(p)) = p

\* any(prefix and command_text.startswith(prefix) for prefix in ...)
AlreadyPrefixed(ps, cmd) ==
    \E k \in 1..Len(ps) : ps[k] # "" /\ StartsWith(cmd, ps[k])

\* lines 64-79: the command as submitted
FullCommandAlwaysPrefixed(ps, cmd, a) ==
    IF a # "" THEN ps[1] \o cmd \o " " \o a ELSE ps[1] \o cmd
FullCommand(ps, cmd, a) ==
    LET base == IF AlreadyPrefixed(ps, cmd) THEN cmd ELSE ps[1] \o cmd
    IN  IF a # "" THEN base \o " " \o a ELSE base

\* lines 51-57: the plugin is disabled or the command has no enabled
\* mapping
ExecuteCommandRejected(i, cmd, why) ==
    /\ UNCHANGED <<cfgVars, textVars, regVars>>
    /\ why = Rejection(cmd)
    /\ running = 0
    /\ pc[i] = "idle"
    /\ \A j \in Invs : j < i => pc[j] # "idle"
    /\ api' = [api EXCEPT ![i] = "process"]
    /\ command' = [command EXCEPT ![i] = cmd]
    /\ result' = [result EXCEPT ![i] =
                     IF why = "disabled" THEN ResultDisabled
                                         ELSE ResultUnmapped(cmd)]
    /\ pc' = [pc EXCEPT ![i] = "returned"]
    /\ UNCHANGED <<running, max_wait_time, wait_interval, waited_time, ret,
                   trigVars, heap, evVars, delivered, histVars,
                   forward_interval, fwdIdx, caught, outbox, response_mode,
                   yielded>>

\* execute_command called directly
CallProcessRejected(i, cmd, why) ==
    /\ ExecuteCommandRejected(i, cmd, why)
    /\ UNCHANGED toolVars

\* lines 59-98: a mapped command of the enabled plugin, up to
\* create_command_event inside execute_command_with_options
ExecuteCommand(i, cmd, a, to, fi, mode) ==
    /\ Rejection(cmd) = "none"
    /\ call_args' = [call_args EXCEPT ![i] = a]
    /\ full_command' = [full_command EXCEPT ![i] =
                           FullCommand(ResolveWakePrefixes(wake_prefix), cmd, a)]
    /\ UNCHANGED <<cfgVars, regVars>>
    /\ running = 0
    /\ pc[i] = "idle"
    /\ \A j \in Invs : j < i => pc[j] # "idle"
    /\ running' = i
    /\ pc' = [pc EXCEPT ![i] = "created"]
    /\ api' = [api EXCEPT ![i] = "process"]
    /\ command' = [command EXCEPT ![i] = cmd]
    /\ response_mode' = [response_mode EXCEPT ![i] = mode]
    /\ forward_interval' = [forward_interval EXCEPT ![i] = fi]
    /\ max_wait_time' = [max_wait_time EXCEPT ![i] = to]
    /\ wait_interval' = [wait_interval EXCEPT ![i] = ProcInterval(to)]
    /\ req' = [req EXCEPT ![i] = [mw |-> to, iv |-> ProcInterval(to)]]
    /\ send' = [send EXCEPT ![i] = Orig(i)]
    /\ everOverlap' = (everOverlap \/ \E j \in Invs : j # i /\ Active(j))
    /\ UNCHANGED <<waited_time, ret, trigVars, heap, has_send_oper, queued,
                   delivered, hostSends, lastSend, window, sleeps, exitBuf,
                   raisedAt, fwdIdx, caught, outbox, result, yielded>>

\* execute_command called directly
CallProcess(i, cmd, a, to, fi, mode) ==
    /\ ExecuteCommand(i, cmd, a, to, fi, mode)
    /\ UNCHANGED toolVars

\* the executor's result, received by the processor
ReturnToProcessor(i) ==
    /\ UNCHANGED <<cfgVars, textVars, regVars, toolVars>>
    /\ api[i] = "process"
    /\ running = i
    /\ pc[i] = "restored"
    /\ ret' = [ret EXCEPT ![i] = ExecutorResult(
                  TriggerResult(captured_messages, heap[captured_messages]))]
    /\ pc' = [pc EXCEPT ![i] = "process"]
    /\ UNCHANGED <<running, max_wait_time, wait_interval, waited_time,
                   trigVars, heap, evVars, delivered, histVars, fwdVars,
                   procVars>>

\* the same after the except branch of the capture
ExceptToProcessor(i) ==
    /\ UNCHANGED <<cfgVars, textVars, regVars, toolVars>>
    /\ api[i] = "process"
    /\ running = i
    /\ pc[i] = "except"
    /\ send' = RestoredSend(send, original_send_method, target_event)
    /\ ret' = [ret EXCEPT ![i] = ExecutorResult(FailureResult)]
    /\ pc' = [pc EXCEPT ![i] = "process"]
    /\ UNCHANGED <<running, max_wait_time, wait_interval, waited_time,
                   trigVars, heap, has_send_oper, queued, delivered, histVars,
                   fwdVars, procVars>>

\* if success and captured_messages: forward or extract; else the
\* failure string of line 179
ProcBranch(i) ==
    /\ UNCHANGED <<cfgVars, textVars, regVars, toolVars>>
    /\ running = i
    /\ pc[i] = "process"
    /\ IF ~(ret[i].ok /\ BatchList(i) # <<>>)
          THEN /\ result' = [result EXCEPT ![i] = ResultFailed(command[i])]
               /\ pc' = [pc EXCEPT ![i] = "returned"]
               /\ running' = 0
               /\ UNCHANGED fwdIdx
          ELSE IF response_mode[i] \in ForwardingModes
          THEN /\ pc' = [pc EXCEPT ![i] = "process_loop"]
               /\ fwdIdx' = [fwdIdx EXCEPT ![i] = 1]
               /\ UNCHANGED <<running, result>>
          ELSE /\ pc' = [pc EXCEPT ![i] = "process_text"]
               /\ UNCHANGED <<running, result, fwdIdx>>
    /\ UNCHANGED <<max_wait_time, wait_interval, waited_time, ret, trigVars,
                   heap, evVars, delivered, histVars, api, command,
                   forward_interval, caught, outbox, response_mode, yielded>>

\* one turn of the forwarding loop of lines 113-145 up to its await
ProcNext(i) ==
    /\ UNCHANGED <<cfgVars, textVars, regVars, toolVars>>
    /\ running = i
    /\ pc[i] = "process_loop"
    /\ IF fwdIdx[i] > Len(BatchList(i))
          THEN /\ pc' = [pc EXCEPT ![i] = "process_text"]
               /\ UNCHANGED running
          ELSE /\ pc' = [pc EXCEPT ![i] = "process_sending"]
               /\ running' = 0
    /\ UNCHANGED <<max_wait_time, wait_interval, waited_time, ret, trigVars,
                   heap, evVars, delivered, histVars, fwdVars, procVars>>

\* context.send_message(event.unified_msg_origin, forward_msg) completes
\* or raises; then the pacing condition
ProcDelivered(i, ok) ==
    /\ UNCHANGED <<cfgVars, textVars, regVars, toolVars>>
    /\ running = 0
    /\ pc[i] = "process_sending"
    /\ running' = i
    /\ outbox' = Append(outbox, ProcDelivery(i, BatchList(i)[fwdIdx[i]], ok))
    /\ IF ~ok
          THEN /\ pc' = [pc EXCEPT ![i] = "process_except"]
               /\ raisedAt' = [raisedAt EXCEPT ![i] = "process_send"]
               /\ UNCHANGED fwdIdx
          ELSE IF NeedsPace(Len(BatchList(i)), fwdIdx[i])
          THEN /\ pc' = [pc EXCEPT ![i] = "process_pace"]
               /\ UNCHANGED <<raisedAt, fwdIdx>>
          ELSE /\ pc' = [pc EXCEPT ![i] = "process_loop"]
               /\ fwdIdx' = [fwdIdx EXCEPT ![i] = @ + 1]
               /\ UNCHANGED raisedAt
    /\ UNCHANGED <<max_wait_time, wait_interval, waited_time, ret, trigVars,
                   heap, evVars, delivered, hostSends, lastSend, window,
                   sleeps, exitBuf, req, everOverlap, api, command,
                   forward_interval, caught, procVars>>

\* await asyncio.sleep(forward_interval)
ProcPace(i) ==
    /\ UNCHANGED <<cfgVars, textVars, regVars, toolVars>>
    /\ running = i
    /\ pc[i] = "process_pace"
    /\ outbox' = Append(outbox, Pace(i, forward_interval[i]))
    /\ pc' = [pc EXCEPT ![i] = "process_sleeping"]
    /\ running' = 0
    /\ UNCHANGED <<max_wait_time, wait_interval, waited_time, ret, trigVars,
                   heap, evVars, delivered, histVars, api, command,
                   forward_interval, fwdIdx, caught, procVars>>

ProcPaceWake(i) ==
    /\ UNCHANGED <<cfgVars, textVars, regVars, toolVars>>
    /\ running = 0
    /\ pc[i] = "process_sleeping"
    /\ running' = i
    /\ fwdIdx' = [fwdIdx EXCEPT ![i] = @ + 1]
    /\ pc' = [pc EXCEPT ![i] = "process_loop"]
    /\ UNCHANGED <<max_wait_time, wait_interval, waited_time, ret, trigVars,
                   heap, evVars, delivered, histVars, api, command,
                   forward_interval, caught, outbox, procVars>>

\* lines 147-177: extract the texts and return the success string
ProcText(i) ==
    /\ UNCHANGED <<cfgVars, textVars, regVars, toolVars>>
    /\ running = i
    /\ pc[i] = "process_text"
    /\ result' = [result EXCEPT ![i] =
          IF ResponseTexts(BatchList(i)) = <<>>
              THEN ResultNoText(command[i])
          ELSE IF response_mode[i] = "forward_only"
              THEN ResultForwarded(command[i])
          ELSE ResultTexts(command[i], ResponseTexts(BatchList(i)))]
    /\ pc' = [pc EXCEPT ![i] = "returned"]
    /\ running' = 0
    /\ UNCHANGED <<max_wait_time, wait_interval, waited_time, ret, trigVars,
                   heap, evVars, delivered, histVars, fwdVars, response_mode,
                   yielded>>

\* lines 181-183: except Exception as e: return the error string with str(e)
ProcExcept(i) ==
    /\ UNCHANGED <<cfgVars, textVars, regVars, toolVars>>
    /\ running = i
    /\ pc[i] = "process_except"
    /\ result' = [result EXCEPT ![i] = ResultError(ExcText(raisedAt[i]))]
    /\ caught' = [caught EXCEPT ![i] = TRUE]
    /\ pc' = [pc EXCEPT ![i] = "returned"]
    /\ running' = 0
    /\ UNCHANGED <<max_wait_time, wait_interval, waited_time, ret, trigVars,
                   heap, evVars, delivered, histVars, api, command,
                   forward_interval, fwdIdx, outbox, response_mode, yielded>>

\* What calling a method of CommandProcessor gives: execute_command is an
\* async def without yield, the mapping methods are async generators.
ProcessorCallKind(method) ==
    IF method = "execute_command" THEN "coroutine" ELSE "async_generator"

\* async for needs an object with __aiter__
AsyncIterable(kind) == kind = "async_generator"

\* main.py execute_cmd: async for result in
\* self.command_processor.execute_command(...): yield result.  The call
\* creates the coroutine without running it; async for raises TypeError
\* on it, so nothing is executed and nothing is yielded.
ExecCmd(i, cmd) ==
    /\ UNCHANGED <<cfgVars, textVars, regVars, toolVars>>
    /\ running = 0
    /\ pc[i] = "idle"
    /\ \A j \in Invs : j < i => pc[j] # "idle"
    /\ api' = [api EXCEPT ![i] = "exec"]
    /\ command' = [command EXCEPT ![i] = cmd]
    /\ IF AsyncIterable(ProcessorCallKind("execute_command"))
          THEN /\ pc' = [pc EXCEPT ![i] = "iterating"]
               /\ UNCHANGED raisedAt
          ELSE /\ pc' = [pc EXCEPT ![i] = "raised"]
               /\ raisedAt' = [raisedAt EXCEPT ![i] = "async_for"]
    /\ UNCHANGED <<running, max_wait_time, wait_interval, waited_time, ret,
                   trigVars, heap, evVars, delivered, hostSends, lastSend,
                   window, sleeps, exitBuf, req, everOverlap,
                   forward_interval, fwdIdx, caught, outbox, procVars>>

ProcStep(i) ==
    \/ Install(i)
    \/ InstallFails(i)
    \/ Submit(i)
    \/ SubmitFails(i)
    \/ LoopTest(i)
    \/ Wake(i)
    \/ Restore(i)
    \/ ReturnToProcessor(i)
    \/ ExceptToProcessor(i)
    \/ ProcBranch(i)
    \/ ProcNext(i)
    \/ ProcPace(i)
    \/ ProcPaceWake(i)
    \/ ProcText(i)
    \/ ProcExcept(i)

\* One call of the processor by an LLM tool, or one use of /cmd2llm exec.
NextProcess ==
    \/ \E cmd \in ProcCommands, why \in {"disabled", "unmapped"} :
          CallProcessRejected(1, cmd, why)
    \/ \E cmd \in ProcCommands, to \in ProcTimeouts,
          fi \in ProcForwardIntervals, mode \in ResponseModes :
          CallProcess(1, cmd, "", to, fi, mode)
    \/ \E cmd \in ProcCommands : ExecCmd(1, cmd)
    \/ ProcStep(1)
    \/ \E ok \in BOOLEAN : ProcDelivered(1, ok)
    \/ \E kind \in MsgKinds : HostSend(1, kind)

\* The configuration the call finds: the plugin on or off, the command
\* unmapped, mapped, or mapped and disabled.
InitProcess ==
    /\ InitCalls
    /\ enable_plugin \in BOOLEAN
    /\ auto_refresh = TRUE
    /\ command_mappings \in
          {<<>>} \cup {<<Mapping(c, "f", e)>> : c \in ProcCommands, e \in BOOLEAN}
    /\ config_mappings = command_mappings
    /\ InitStoreConfig
    /\ wake_prefix = DefaultWakePrefix
    /\ registry = [f \in Functions |-> NoCommand]
    /\ registered_functions = {}
    /\ lastOp = NoOp

ProcessSpec == InitProcess /\ [][NextProcess]_vars

\* ------------------------------------------------------- wake prefixes
\* values of wake_prefix in the host configuration, command texts with
\* and without a prefix, args
WakePrefixes ==
    {[t |-> "absent", v |-> <<>>], [t |-> "other", v |-> <<>>],
     [t |-> "str", v |-> <<"/">>], [t |-> "str", v |-> <<"">>],
     [t |-> "list", v |-> <<>>], [t |-> "list", v |-> <<"/">>],
     [t |-> "list", v |-> <<"!">>], [t |-> "list", v |-> <<"!", "/">>],
     [t |-> "list", v |-> <<"", "!">>]}

\* every command mapped and enabled, any wake_prefix setting
InitPrefix ==
    /\ InitCalls
    /\ enable_plugin = TRUE
    /\ auto_refresh = TRUE
    /\ command_mappings =
          <<Mapping("status", "f", TRUE), Mapping("/status", "f", TRUE),
            Mapping("!status", "g", TRUE)>>
    /\ config_mappings = command_mappings
    /\ InitStoreConfig
    /\ wake_prefix \in WakePrefixes
    /\ registry = [f \in Functions |-> NoCommand]
    /\ registered_functions = {}
    /\ lastOp = NoOp

\* One call of the processor in forward_only mode with the shortest
\* timeout.
NextPrefix ==
    \/ \E cmd \in {"status", "/status", "!status"}, a \in {"", "x=1"} :
          CallProcess(1, cmd, a, MinWait, MaxProcInterval, "forward_only")
    \/ ProcStep(1)
    \/ \E ok \in BOOLEAN : ProcDelivered(1, ok)
    \/ HostSend(1, "chain")

PrefixSpec == InitPrefix /\ [][NextPrefix]_vars

\* ----------------------------------------------------------- registry
\* DataManager's mapping operations and DynamicLLMManager.  The host
\* registry maps a function name to the command its handler is bound to;
\* add_func replaces an entry of the same name, unregister_llm_tool
\* removes it, and either may raise and then leaves the registry as it is.

\* the state of the registry and of registered_functions
RegState(reg, rf) == [reg |-> reg, rf |-> rf]

HasCommand(maps, cmd) == \E k \in 1..Len(maps) : maps[k].cmd = cmd

\* DataManager.add_mapping / remove_mapping / set_mapping_enabled on the
\* mapping list
RemovedMapping(maps, cmd) == SelectSeq(maps, LAMBDA m : m.cmd # cmd)
EnabledMapping(maps, cmd, b) ==
    [k \in 1..Len(maps) |->
        IF maps[k].cmd = cmd THEN [maps[k] EXCEPT !.enabled = b] ELSE maps[k]]

\* unregister_function for every name of registered_functions; failU are
\* the names for which unregister_llm_tool raises
UnregisterAllKeeps(st, failU) == st
UnregisterAll(st, failU) ==
    RegState([f \in Functions |->
                 IF f \in st.rf \ failU THEN NoCommand ELSE st.reg[f]],
             st.rf \cap failU)

\* the loop of register_dynamic_functions over the enabled mappings;
\* failA are the names for which add_func raises inside
\* _register_single_function; line 39 records the name either way
RECURSIVE RegisterEach(_, _, _)
RegisterEach(maps, st, failA) ==
    IF maps = <<>> THEN st
    ELSE LET m == Head(maps)
         IN  IF m.enabled /\ m.fn # "" /\ m.fn \notin st.rf
                 THEN RegisterEach(Tail(maps),
                          RegState(IF m.fn \in failA THEN st.reg
                                   ELSE [st.reg EXCEPT ![m.fn] = m.cmd],
                                   st.rf \cup {m.fn}),
                          failA)
                 ELSE RegisterEach(Tail(maps), st, failA)

\* register_dynamic_functions
RegisterDynamicFunctions(enabled, maps, st, failA) ==
    IF ~enabled THEN st ELSE RegisterEach(maps, st, failA)

\* refresh_functions
RefreshFunctions(enabled, maps, st, failU, failA) ==
    RegisterDynamicFunctions(enabled, maps, UnregisterAll(st, failU), failA)

\* success and should_auto_refresh_on_change()
ShouldRefreshNever(ok) == FALSE
ShouldRefresh(ok) == ok /\ auto_refresh

\* the registry after a management command that left the mappings maps
AfterChange(ok, maps, failU, failA) ==
    IF ShouldRefresh(ok)
        THEN RefreshFunctions(enable_plugin, maps,
                              RegState(registry, registered_functions),
                              failU, failA)
        ELSE RegState(registry, registered_functions)

Op(op, cmd, fn, ok, refreshed, failU, failA) ==
    [op |-> op, cmd |-> cmd, fn |-> fn, ok |-> ok,
     clean |-> (refreshed => (failU = {} /\ failA = {}))]

\* /cmd2llm add <command> <function>
CmdAdd(cmd, fn, failU, failA) ==
    LET ok == enable_plugin /\ ~HasCommand(command_mappings, cmd)
        maps == IF ok THEN Append(command_mappings, Mapping(cmd, fn, TRUE))
                      ELSE command_mappings
        st == AfterChange(ok, maps, failU, failA)
    IN  /\ running = 0
        /\ command_mappings' = maps
        /\ config_mappings' = maps
        /\ registry' = st.reg
        /\ registered_functions' = st.rf
        /\ lastOp' = Op("add", cmd, fn, ok, ShouldRefresh(ok), failU, failA)
        /\ UNCHANGED <<callVars, enable_plugin, auto_refresh, wake_prefix,
                       allow_duplicate, strict_validation, compat,
                       legacy_file, lastCall>>

\* /cmd2llm rm <command>
CmdRemove(cmd, failU, failA) ==
    LET ok == enable_plugin /\ HasCommand(command_mappings, cmd)
        maps == IF ok THEN RemovedMapping(command_mappings, cmd)
                      ELSE command_mappings
        st == AfterChange(ok, maps, failU, failA)
    IN  /\ running = 0
        /\ command_mappings' = maps
        /\ config_mappings' = maps
        /\ registry' = st.reg
        /\ registered_functions' = st.rf
        /\ lastOp' = Op("rm", cmd, "", ok, ShouldRefresh(ok), failU, failA)
        /\ UNCHANGED <<callVars, enable_plugin, auto_refresh, wake_prefix,
                       allow_duplicate, strict_validation, compat,
                       legacy_file, lastCall>>

\* /cmd2llm enable <command> and /cmd2llm disable <command>
CmdSetEnabled(cmd, b, failU, failA) ==
    LET ok == /\ enable_plugin
              /\ HasCommand(command_mappings, cmd)
              /\ GetMapping(command_mappings, cmd, FALSE).enabled # b
        maps == IF ok THEN EnabledMapping(command_mappings, cmd, b)
                      ELSE command_mappings
        st == AfterChange(ok, maps, failU, failA)
    IN  /\ running = 0
        /\ command_mappings' = maps
        /\ config_mappings' = maps
        /\ registry' = st.reg
        /\ registered_functions' = st.rf
        /\ lastOp' = Op(IF b THEN "enable" ELSE "disable", cmd, "", ok,
                        ShouldRefresh(ok), failU, failA)
        /\ UNCHANGED <<callVars, enable_plugin, auto_refresh, wake_prefix,
                       allow_duplicate, strict_validation, compat,
                       legacy_file, lastCall>>

\* /cmd2llm refresh
CmdRefresh(failU, failA) ==
    LET st == RefreshFunctions(enable_plugin, command_mappings,
                               RegState(registry, registered_functions),
                               failU, failA)
    IN  /\ running = 0
        /\ registry' = st.reg
        /\ registered_functions' = st.rf
        /\ lastOp' = Op("refresh", NoCommand, "", TRUE, TRUE, failU, failA)
        /\ UNCHANGED <<callVars, cfgVars>>

\* register_dynamic_functions() called on its own, as at start-up
CallRegister(failA) ==
    LET st == RegisterDynamicFunctions(enable_plugin, command_mappings,
                                       RegState(registry, registered_functions),
                                       failA)
    IN  /\ running = 0
        /\ registry' = st.reg
        /\ registered_functions' = st.rf
        /\ lastOp' = Op("register", NoCommand, "", TRUE, TRUE, {}, failA)
        /\ UNCHANGED <<callVars, cfgVars>>

\* unregister_function(fn) called on its own
CallUnregister(fn, fails) ==
    LET failU == IF fails THEN {fn} ELSE {}
        st == UnregisterAll(RegState(registry, registered_functions \cap {fn}),
                            failU)
    IN  /\ running = 0
        /\ registry' = st.reg
        /\ registered_functions' = (registered_functions \ {fn}) \cup st.rf
        /\ lastOp' = Op("unregister", NoCommand, fn, TRUE, TRUE, failU, {})
        /\ UNCHANGED <<callVars, cfgVars>>

\* the administrator switches basic_config.enable_plugin or
\* auto_refresh_on_change in the WebUI
SetEnablePlugin(b) ==
    /\ running = 0
    /\ enable_plugin # b
    /\ enable_plugin' = b
    /\ lastOp' = Op("config", NoCommand, "", TRUE, FALSE, {}, {})
    /\ UNCHANGED <<callVars, auto_refresh, command_mappings, wake_prefix,
                   storeVars,
                   registry, registered_functions>>

SetAutoRefresh(b) ==
    /\ running = 0
    /\ auto_refresh # b
    /\ auto_refresh' = b
    /\ lastOp' = Op("config", NoCommand, "", TRUE, FALSE, {}, {})
    /\ UNCHANGED <<callVars, enable_plugin, command_mappings, wake_prefix,
                   storeVars,
                   registry, registered_functions>>

\* Management commands, configuration switches and direct calls of the
\* manager, with host registry operations that may raise.
NextRegistry ==
    \/ \E cmd \in MapCommands, fn \in Functions,
          failU \in SUBSET registered_functions, failA \in SUBSET Functions :
          CmdAdd(cmd, fn, failU, failA)
    \/ \E cmd \in MapCommands,
          failU \in SUBSET registered_functions, failA \in SUBSET Functions :
          CmdRemove(cmd, failU, failA)
    \/ \E cmd \in MapCommands, b \in BOOLEAN,
          failU \in SUBSET registered_functions, failA \in SUBSET Functions :
          CmdSetEnabled(cmd, b, failU, failA)
    \/ \E failU \in SUBSET registered_functions, failA \in SUBSET Functions :
          CmdRefresh(failU, failA)
    \/ \E failA \in SUBSET Functions : CallRegister(failA)
    \/ \E fn \in Functions, fails \in BOOLEAN : CallUnregister(fn, fails)
    \/ \E b \in BOOLEAN : SetEnablePlugin(b)
    \/ \E b \in BOOLEAN : SetAutoRefresh(b)

RegistrySpec == Init /\ [][NextRegistry]_vars

\* ---------------------------------------------------------- LLM tools
\* The handler _create_dynamic_handler(command_name) builds and
\* _register_single_function hands to the host.  The LLM calls the
\* function registered under a name with the keyword arguments it chooses.

\* the commands an LLM can put into command_text; Absent when it passes
\* no command_text
Absent == "<absent>"
ToolTexts == {"status", "help", Absent}

\* lines 114-119: the command the handler passes on; command_text is
\* kwargs.get("command_text", command_name)
HandlerCommandAsAsked(bound, ct) == IF ct = Absent THEN bound ELSE ct
HandlerCommand(bound, ct) ==
    LET command_text == IF ct = Absent THEN bound ELSE ct
    IN  IF command_text # bound THEN bound ELSE command_text

\* lines 133-139: what the handler returns to the LLM, nothing (None) in
\* forward_only mode
HandlerReturn(mode, res) ==
    IF mode = "forward_only" THEN <<>> ELSE <<"command result: ">> \o res

\* lines 108-128: the LLM calls function fn with command_text ct and
\* args a; the handler runs up to the first await inside execute_command
ToolCall(i, fn, ct, a, to, fi, mode) ==
    /\ registry[fn] # NoCommand
    /\ tool' = [tool EXCEPT ![i] =
                   [fn |-> fn, bound |-> registry[fn], asked |-> ct,
                    mode |-> "none"]]
    /\ UNCHANGED toolRet
    /\ \/ ExecuteCommand(i, HandlerCommand(registry[fn], ct), a, to, fi, mode)
       \/ \E why \in {"disabled", "unmapped"} :
             ExecuteCommandRejected(i, HandlerCommand(registry[fn], ct), why)

\* lines 129-139: execute_command has returned; the handler reads
\* response_mode again and returns
ToolReturn(i, mode) ==
    /\ running = 0
    /\ api[i] = "process"
    /\ pc[i] = "returned"
    /\ tool[i].fn # ""
    /\ tool[i].mode = "none"
    /\ tool' = [tool EXCEPT ![i].mode = mode]
    /\ toolRet' = [toolRet EXCEPT ![i] = HandlerReturn(mode, result[i])]
    /\ UNCHANGED <<running, invVars, trigVars, heap, evVars, delivered,
                   histVars, fwdVars, procVars, textVars, cfgVars, regVars>>

\* Management commands before the call, then one call of a registered
\* function by the LLM.
NextTool ==
    \/ pc[1] = "idle" /\ CmdAdd("status", "f", {}, {})
    \/ pc[1] = "idle" /\ CmdRemove("status", {}, {})
    \/ \E b \in BOOLEAN :
          pc[1] = "idle" /\ CmdSetEnabled("status", b, {}, {})
    \/ \E b \in BOOLEAN : pc[1] = "idle" /\ SetEnablePlugin(b)
    \/ \E b \in BOOLEAN : pc[1] = "idle" /\ SetAutoRefresh(b)
    \/ \E ct \in ToolTexts, mode \in ResponseModes :
          ToolCall(1, "f", ct, "", MinWait, MaxProcInterval, mode)
    \/ ProcStep(1)
    \/ \E ok \in BOOLEAN : ProcDelivered(1, ok)
    \/ HostSend(1, "chain")
    \/ \E mode \in ResponseModes : ToolReturn(1, mode)

ToolSpec == Init /\ [][NextTool]_vars

\* -------------------------------------------------------- DataManager
\* The mapping store.  An entry has the fields command name, function
\* name, description, enabled flag and group; the in-memory store
\* command_mappings is a dict in insertion order, config_mappings is the
\* list mapping_config.command_mappings of the configuration object.

\* str.strip(): whitespace removed at both ends
RECURSIVE Strip(_)
Strip(str) ==
    IF str = "" THEN ""
    ELSE IF SubSeq(str, 1, 1) = " " THEN Strip(SubSeq(str, 2, Len(str)))
    ELSE IF SubSeq(str, Len(str), Len(str)) = " "
        THEN Strip(SubSeq(str, 1, Len(str) - 1))
    ELSE str

\* d[key] = value on a dict in insertion order: an existing key keeps its
\* place and gets the new value
DictSet(maps, e) ==
    IF \E k \in 1..Len(maps) : maps[k].cmd = e.cmd
        THEN [k \in 1..Len(maps) |-> IF maps[k].cmd = e.cmd THEN e ELSE maps[k]]
        ELSE Append(maps, e)

\* _normalize_mapping_entries: entries without command name or function
\* name are dropped, a later entry of the same name replaces the earlier
RECURSIVE NormalizeInto(_, _)
NormalizeInto(normalized, entries) ==
    IF entries = <<>> THEN normalized
    ELSE LET item == Head(entries)
             e == Entry(Strip(item.cmd), Strip(item.fn), Strip(item.desc),
                        item.enabled,
                        IF Strip(item.group) = "" THEN "default"
                                                  ELSE Strip(item.group))
         IN  IF e.cmd = "" \/ e.fn = ""
                 THEN NormalizeInto(normalized, Tail(entries))
                 ELSE NormalizeInto(DictSet(normalized, e), Tail(entries))

\* _serialize_mappings
Serialize(maps) ==
    [k \in 1..Len(maps) |->
        [maps[k] EXCEPT !.group = IF @ = "" THEN "default" ELSE @]]

\* reload_from_config
ReloadFromConfig(conf) == NormalizeInto(<<>>, conf)

\* CommandUtils.validate_mapping: the errors of a command name and a
\* function name; a name is refused when it is empty or blank
ValidateMapping(command_name, llm_function) ==
    (IF Strip(command_name) = "" THEN {"command_name"} ELSE {})
        \cup (IF Strip(llm_function) = "" THEN {"llm_function"} ELSE {})

\* llm_function.replace("_", "").isalnum(); the letters of the names
\* are f and g
RECURSIVE WithoutUnderscore(_)
WithoutUnderscore(str) ==
    IF str = "" THEN ""
    ELSE IF SubSeq(str, 1, 1) = "_" THEN WithoutUnderscore(SubSeq(str, 2, Len(str)))
    ELSE SubSeq(str, 1, 1) \o WithoutUnderscore(SubSeq(str, 2, Len(str)))
StrictName(llm_function) ==
    LET str == WithoutUnderscore(llm_function)
    IN  str # "" /\ \A k \in 1..Len(str) : SubSeq(str, k, k) \in {"f", "g"}

\* the outcome of a DataManager method: its return value, the in-memory
\* store and the configuration list it leaves
Outcome(ok, why, maps, conf) ==
    [ok |-> ok, why |-> why, mem |-> maps, conf |-> conf]

\* DataManager.add_mapping
AddMapping(conf, strict, allow, command_name, llm_function, description) ==
    LET maps == ReloadFromConfig(conf)
        added == Append(maps, Entry(command_name, llm_function, description,
                                    TRUE, "default"))
    IN  IF ValidateMapping(command_name, llm_function) # {}
            THEN Outcome(FALSE, "invalid", maps, conf)
        ELSE IF strict /\ ~StrictName(llm_function)
            THEN Outcome(FALSE, "strict", maps, conf)
        ELSE IF ~allow /\ \E k \in 1..Len(maps) :
                             /\ maps[k].cmd # command_name
                             /\ maps[k].fn = llm_function
            THEN Outcome(FALSE, "duplicate", maps, conf)
        ELSE IF HasCommand(maps, command_name)
            THEN Outcome(FALSE, "exists", maps, conf)
        ELSE Outcome(TRUE, "added", added, Serialize(added))

\* DataManager.remove_mapping
RemoveMapping(conf, command_name) ==
    LET maps == ReloadFromConfig(conf)
        left == RemovedMapping(maps, command_name)
    IN  IF ~HasCommand(maps, command_name)
            THEN Outcome(FALSE, "missing", maps, conf)
            ELSE Outcome(TRUE, "removed", left, Serialize(left))

\* DataManager.set_mapping_enabled
SetMappingEnabled(conf, command_name, enabled) ==
    LET maps == ReloadFromConfig(conf)
        set == EnabledMapping(maps, command_name, enabled)
    IN  IF ~HasCommand(maps, command_name)
            THEN Outcome(FALSE, "missing", maps, conf)
        ELSE IF GetMapping(maps, command_name, FALSE).enabled = enabled
            THEN Outcome(FALSE, "same", maps, conf)
        ELSE Outcome(TRUE, "set", set, Serialize(set))

\* DataManager.list_mappings on the reloaded store (the filter is taken
\* in lower case as written)
ListMappingsIgnoringEnabledOnly(maps, enabled_only, state_filter) ==
    IF Strip(state_filter) = "enabled" THEN SelectSeq(maps, LAMBDA m : m.enabled)
    ELSE IF Strip(state_filter) = "disabled"
        THEN SelectSeq(maps, LAMBDA m : ~m.enabled)
    ELSE maps
ListMappings(maps, enabled_only, state_filter) ==
    LET stripped == Strip(state_filter)
        mode == IF enabled_only /\ stripped = "all" THEN "enabled" ELSE stripped
    IN  IF mode = "enabled" THEN SelectSeq(maps, LAMBDA m : m.enabled)
        ELSE IF mode = "disabled" THEN SelectSeq(maps, LAMBDA m : ~m.enabled)
        ELSE maps

\* the record of a call: the method, its arguments, its outcome and what
\* it returned; seq alternates so that two calls in a row differ
Called(op, cmd, fn, desc, flag, ok, why, value) ==
    [op |-> op, seq |-> 1 - lastCall.seq, cmd |-> cmd, fn |-> fn,
     desc |-> desc, flag |-> flag, ok |-> ok, why |-> why, ret |-> value]

\* add_mapping(command_name, llm_function, description)
AddCall(command_name, llm_function, description) ==
    LET out == AddMapping(config_mappings, strict_validation, allow_duplicate,
                          command_name, llm_function, description)
    IN  /\ command_mappings' = out.mem
        /\ config_mappings' = out.conf
        /\ lastCall' = Called("add", command_name, llm_function, description,
                              TRUE, out.ok, out.why, <<>>)
        /\ UNCHANGED <<callVars, regVars, enable_plugin, auto_refresh,
                       wake_prefix, allow_duplicate, strict_validation,
                       compat, legacy_file>>

\* remove_mapping(command_name)
RemoveCall(command_name) ==
    LET out == RemoveMapping(config_mappings, command_name)
    IN  /\ command_mappings' = out.mem
        /\ config_mappings' = out.conf
        /\ lastCall' = Called("remove", command_name, "", "", FALSE, out.ok,
                              out.why, <<>>)
        /\ UNCHANGED <<callVars, regVars, enable_plugin, auto_refresh,
                       wake_prefix, allow_duplicate, strict_validation,
                       compat, legacy_file>>

\* set_mapping_enabled(command_name, enabled)
SetEnabledCall(command_name, enabled) ==
    LET out == SetMappingEnabled(config_mappings, command_name, enabled)
    IN  /\ command_mappings' = out.mem
        /\ config_mappings' = out.conf
        /\ lastCall' = Called("set_enabled", command_name, "", "", enabled,
                              out.ok, out.why, <<>>)
        /\ UNCHANGED <<callVars, regVars, enable_plugin, auto_refresh,
                       wake_prefix, allow_duplicate, strict_validation,
                       compat, legacy_file>>

\* get_mapping(command_name, enabled_only): reloads, then looks up
GetCall(command_name, enabled_only) ==
    LET maps == ReloadFromConfig(config_mappings)
        found == GetMapping(maps, command_name, enabled_only)
    IN  /\ command_mappings' = maps
        /\ lastCall' = Called("get", command_name, "", "", enabled_only,
                              found # NoMapping, "",
                              IF found = NoMapping THEN <<>> ELSE <<found>>)
        /\ UNCHANGED <<callVars, regVars, enable_plugin, auto_refresh,
                       wake_prefix, config_mappings, allow_duplicate,
                       strict_validation, compat, legacy_file>>

\* list_mappings(enabled_only, state_filter): reloads, then filters
ListCall(enabled_only, state_filter) ==
    LET maps == ReloadFromConfig(config_mappings)
    IN  /\ command_mappings' = maps
        /\ lastCall' = Called("list", "", "", state_filter, enabled_only,
                              TRUE, "",
                              ListMappings(maps, enabled_only, state_filter))
        /\ UNCHANGED <<callVars, regVars, enable_plugin, auto_refresh,
                       wake_prefix, config_mappings, allow_duplicate,
                       strict_validation, compat, legacy_file>>

\* the administrator switches allow_duplicate_llm_function or
\* strict_validation
SetValidation(allow, strict) ==
    /\ <<allow, strict>> # <<allow_duplicate, strict_validation>>
    /\ allow_duplicate' = allow
    /\ strict_validation' = strict
    /\ UNCHANGED <<callVars, regVars, enable_plugin, auto_refresh,
                   wake_prefix, command_mappings, config_mappings, compat,
                   legacy_file, lastCall>>

\* the arguments of the calls: names and descriptions with and without
\* surrounding whitespace, an empty and a blank name
AddCalls ==
    {<<"ls", "f", "">>, <<"ls", "g", "d ">>, <<"ls ", "g", "">>,
     <<"rm", "f", "">>, <<"rm", "f ", "">>, <<"rm", "f_", "">>,
     <<"", "f", "">>, <<"ls", " ", "">>}
StoreCommands == {"ls", "ls ", "rm"}

\* Calls of the DataManager methods in any order.
NextStore ==
    \/ \E a \in AddCalls : AddCall(a[1], a[2], a[3])
    \/ \E c \in StoreCommands : RemoveCall(c)
    \/ \E c \in StoreCommands, e \in BOOLEAN : SetEnabledCall(c, e)
    \/ \E c \in StoreCommands, eo \in BOOLEAN : GetCall(c, eo)
    \/ \E l \in {<<TRUE, "all">>, <<FALSE, "all">>, <<FALSE, "enabled">>,
                 <<FALSE, " enabled">>, <<FALSE, "disabled">>,
                 <<TRUE, "disabled">>} : ListCall(l[1], l[2])
    \/ \E allow \in BOOLEAN, strict \in BOOLEAN : SetValidation(allow, strict)

StoreSpec == Init /\ [][NextStore]_vars

\* ---------------------------------------------------------- migration
\* DataManager.__init__ with the legacy file command_mappings.json.  An
\* item of the legacy file has a command name, a function name and a
\* description.

\* _load_legacy_mappings: nothing for a missing or unreadable file, items
\* without a function name are skipped
RECURSIVE LoadLegacyInto(_, _)
LoadLegacyInto(migrated, data) ==
    IF data = <<>> THEN migrated
    ELSE LET item == Head(data)
         IN  IF Strip(item.fn) = ""
                 THEN LoadLegacyInto(migrated, Tail(data))
                 ELSE LoadLegacyInto(
                          DictSet(migrated,
                                  Entry(Strip(item.cmd), Strip(item.fn),
                                        Strip(item.desc), TRUE, "legacy")),
                          Tail(data))
LoadLegacyMappings(file) ==
    IF ~file.exists THEN <<>> ELSE LoadLegacyInto(<<>>, file.data)

\* line 215: if not auto_migrate or already_migrated: return
ShouldMigrateIgnoringFlag(c) == c.auto_migrate_legacy_json
ShouldMigrate(c) == c.auto_migrate_legacy_json /\ ~c.migration_once_flag

\* DataManager(context, config): _ensure_config_defaults,
\* reload_from_config, _migrate_legacy_data_if_needed; os.replace of the
\* backup may fail
Construct(backup_fails) ==
    LET maps == ReloadFromConfig(config_mappings)
        legacy == LoadLegacyMappings(legacy_file)
        runs == ShouldMigrate(compat)
        imports == runs /\ maps = <<>> /\ legacy # <<>>
    IN  /\ command_mappings' = IF imports THEN legacy ELSE maps
        /\ config_mappings' = IF imports THEN Serialize(legacy)
                                         ELSE config_mappings
        /\ compat' = IF runs THEN [compat EXCEPT !.migration_once_flag = TRUE]
                             ELSE compat
        /\ legacy_file' =
               IF imports /\ compat.keep_legacy_backup /\ ~backup_fails
                   THEN NoLegacy ELSE legacy_file
        /\ lastCall' = Called("construct", "", "", "", backup_fails, TRUE,
                              IF imports THEN "imported" ELSE "", <<>>)
        /\ UNCHANGED <<callVars, regVars, enable_plugin, auto_refresh,
                       wake_prefix, allow_duplicate, strict_validation>>

\* the administrator switches auto_migrate_legacy_json or
\* keep_legacy_backup
SetCompat(auto, keep) ==
    /\ compat # Compat(auto, keep, compat.migration_once_flag)
    /\ compat' = Compat(auto, keep, compat.migration_once_flag)
    /\ UNCHANGED <<callVars, regVars, enable_plugin, auto_refresh,
                   wake_prefix, command_mappings, config_mappings,
                   allow_duplicate, strict_validation, legacy_file, lastCall>>

\* a legacy file is put into the data directory
LegacyFileWritten(file) ==
    /\ legacy_file # file
    /\ legacy_file' = file
    /\ UNCHANGED <<callVars, regVars, enable_plugin, auto_refresh,
                   wake_prefix, command_mappings, config_mappings,
                   allow_duplicate, strict_validation, compat, lastCall>>

\* legacy files: unreadable or empty, one mapping, a padded name and an
\* item without function
LegacyFiles ==
    {[exists |-> TRUE, data |-> <<>>],
     [exists |-> TRUE,
      data |-> <<[cmd |-> "ls", fn |-> "g", desc |-> "old"]>>],
     [exists |-> TRUE,
      data |-> <<[cmd |-> "ls ", fn |-> "g", desc |-> ""],
                 [cmd |-> "rm", fn |-> " ", desc |-> ""]>>]}

\* before the first construction: any compat switches, the once flag
\* unset, a configuration with or without mappings, a legacy file or none
InitMigrate ==
    /\ InitCalls
    /\ enable_plugin = TRUE
    /\ auto_refresh = TRUE
    /\ wake_prefix = DefaultWakePrefix
    /\ registry = [f \in Functions |-> NoCommand]
    /\ registered_functions = {}
    /\ lastOp = NoOp
    /\ command_mappings = <<>>
    /\ config_mappings \in {<<>>, <<Mapping("ls", "f", TRUE)>>,
                            <<Entry(" ", "f", "", TRUE, "")>>}
    /\ allow_duplicate = TRUE
    /\ strict_validation = FALSE
    /\ compat \in {Compat(a, k, FALSE) : a \in BOOLEAN, k \in BOOLEAN}
    /\ legacy_file \in {NoLegacy} \cup LegacyFiles
    /\ lastCall = NoCall

\* Constructions of the DataManager (plugin loads), with method calls,
\* configuration switches and legacy files appearing in between.
NextMigrate ==
    \/ \E backup_fails \in BOOLEAN : Construct(backup_fails)
    \/ \E c \in {"ls", "rm"} :
          lastCall.op # "none" /\ AddCall(c, "f", "")
    \/ \E c \in {"ls", "rm"} : lastCall.op # "none" /\ RemoveCall(c)
    \/ \E auto \in BOOLEAN, keep \in BOOLEAN : SetCompat(auto, keep)
    \/ \E file \in LegacyFiles : LegacyFileWritten(file)

MigrateSpec == InitMigrate /\ [][NextMigrate]_vars

\* ------------------------------------------------------------ properties
Returned(i) == pc[i] = "returned"
\* Invocation i returned from the statements after the loop without a capture.
TimedOut(i) == Returned(i) /\ raisedAt[i] = "none" /\ ~ret[i].ok
\* Invocation i is past the clamps of lines 96-97.
PastClamp(i) ==
    \/ pc[i] \in {"loop", "waiting", "exited", "restored"}
    \/ Returned(i) /\ raisedAt[i] = "none"
Range(s) == {s[k] : k \in 1..Len(s)}
\* The messages of s are in the order in which the host sent them.
InEmissionOrder(s) == \A k, l \in 1..Len(s) : k < l => s[k].n < s[l].n
Abs(x) == IF x < 0 THEN -x ELSE x
\* The number of sleeps of iv ticks after which mw ticks have been waited.
TimeoutSleeps(mw, iv) == (mw + iv - 1) \div iv

\* C1: in a run of non-overlapping calls, when a call has returned the send
\* operation of its own synthetic event is the operation the event had
\* before the interceptor was installed.
C1_SendRestoredAfterEveryCall ==
    \A i \in Invs :
        (~everOverlap /\ Returned(i) /\ send[i] # NoSend) => send[i] = Orig(i)

\* C2: a call in which event creation, interceptor installation or the
\* queue submit raised returns (False, []), and an event whose send was
\* replaced during that call has its original send back.
C2_FailureReturnsAndRestores ==
    \A i \in Invs :
        (~everOverlap /\ Returned(i) /\ raisedAt[i] # "none") =>
            /\ ret[i] = FailureResult
            /\ raisedAt[i] = "submit" => send[i] = Orig(i)

\* C3: at every return succeeded is true exactly when the returned batch
\* is non-empty, and after the wait loop the returned batch is the content
\* the capture buffer had when the loop was left.
C3_SucceededIffBatchNonEmpty ==
    \A i \in Invs :
        Returned(i) =>
            /\ ret[i].ok <=> ret[i].snap # <<>>
            /\ ret[i].ok => ret[i].batch \in Lists
            /\ raisedAt[i] = "none" => ret[i].snap = exitBuf[i]

\* One call returned two captured messages and another timed out.
C3_Witness ==
    \E i, j \in Invs :
        /\ Returned(i) /\ ret[i].ok /\ Len(ret[i].snap) = 2
        /\ TimedOut(j) /\ exitBuf[j] = <<>>

\* C4: in a run of non-overlapping calls, if the host called send on the
\* event at least once while the call was waiting, the call returns
\* succeeded = true and its batch lists captured messages in the order the
\* host emitted them.
C4_AnsweredCallSucceeds ==
    \A i \in Invs :
        (~everOverlap /\ Returned(i) /\ window[i] # <<>>) =>
            /\ ret[i].ok
            /\ Range(ret[i].snap) \subseteq Range(window[i])
            /\ InEmissionOrder(ret[i].snap)

C5_Safety ==
    \A i \in Invs :
        /\ pc[i] = "waiting" => waited_time[i] < max_wait_time[i]
        /\ (Returned(i) /\ raisedAt[i] = "none" /\ window[i] = <<>>) =>
              /\ ret[i] = FailureResult
              /\ Abs(sleeps[i] * wait_interval[i] - max_wait_time[i])
                    <= wait_interval[i]

\* C5: when the host never calls send the call terminates and returns
\* (False, []) after a total sleep time within one poll interval of the
\* clamped maximum wait, and it is never asleep with the accumulated wait
\* at or beyond the maximum wait.
C5_TimeoutAfterMaxWait ==
    /\ []C5_Safety
    /\ \A i \in Invs :
          (pc[i] = "waiting" /\ hostSends = 0) ~> (Returned(i) \/ hostSends > 0)

\* A timeout whose total sleep time exceeds the maximum wait.
C5_Witness ==
    /\ TimedOut(1) /\ window[1] = <<>>
    /\ sleeps[1] * wait_interval[1] > max_wait_time[1]

\* C6: a call with wait_interval at or below the enforced minimum polls
\* with exactly the minimum interval, so it sleeps as often and at the same
\* times as the call with the minimum itself; clamping the clamped value
\* changes nothing.
C6_BelowMinimumPollsAtMinimum ==
    \A i \in Invs :
        PastClamp(i) =>
            /\ ClampInterval(wait_interval[i]) = wait_interval[i]
            /\ req[i].iv <= MinInterval =>
                  /\ wait_interval[i] = MinInterval
                  /\ waited_time[i] = sleeps[i] * MinInterval
                  /\ TimedOut(i) =>
                        sleeps[i] = TimeoutSleeps(max_wait_time[i], MinInterval)

\* A call with a negative interval that timed out.
C6_Witness ==
    /\ TimedOut(1) /\ req[1].iv < 0 /\ req[1].mw > MinWait
    /\ sleeps[1] = req[1].mw

C7_Safety ==
    \A i \in Invs :
        /\ pc[i] = "waiting" => wait_interval[i] >= MinInterval
        /\ TimedOut(i) =>
              /\ sleeps[i] >= 1
              /\ wait_interval[i] >= MinInterval
              /\ sleeps[i] * wait_interval[i] >= MinWait

\* C7: for every max_wait_time and wait_interval, zero and negative ones
\* included, the wait loop terminates, every sleep lasts at least the
\* minimum poll interval, and a timeout is reported only after at least
\* one sleep and at least the minimum wait.
C7_WaitLoopTerminates ==
    /\ []C7_Safety
    /\ \A i \in Invs : (pc[i] \in {"loop", "waiting"}) ~> Returned(i)

\* A timeout of a call with a negative wait and a zero interval.
C7_Witness ==
    /\ TimedOut(1) /\ req[1].mw < 0 /\ req[1].iv = 0
    /\ sleeps[1] = MinWait

\* C8: a send call on an event whose send is the interceptor returns
\* success, sets that event's _has_send_oper and makes no real delivery;
\* no step of trigger_and_capture_command makes a real delivery.
C8_InterceptorOnlyCaptures ==
    [][/\ hostSends' # hostSends =>
            (send[lastSend'.e].k = "icpt" =>
                /\ lastSend'.result = "True"
                /\ has_send_oper'[lastSend'.e]
                /\ delivered' = delivered)
       /\ pc' # pc => delivered' = delivered]_vars

\* The host's last send call went to an installed interceptor.
C8_Witness ==
    \E e \in Events :
        /\ send[e].k = "icpt" /\ lastSend = [e |-> e, result |-> "True"]
        /\ has_send_oper[e] /\ hostSends = MaxSends

\* Every message of w is None, lacks a chain or has an empty chain.
OnlyDegenerate(w) ==
    \A k \in 1..Len(w) : w[k].kind \in {"none", "malformed", "empty"}

\* C9: a send call with a null, empty or malformed message made while the
\* interceptor is installed is recorded as one buffer entry, so a call
\* whose only host sends were such messages returns succeeded = true with
\* one entry per send.
C9_DegenerateSendsRecorded ==
    \A i \in Invs :
        OnlyDegenerate(window[i]) =>
            /\ pc[i] = "waiting" =>
                  Len(heap[captured_messages]) = Len(window[i])
            /\ (Returned(i) /\ raisedAt[i] = "none" /\ window[i] # <<>>) =>
                  ret[i].ok /\ Len(ret[i].snap) = Len(window[i])

\* C10: restore_message_sender called twice in a row leaves every send
\* operation as after the first call, and called when no interceptor was
\* ever installed it changes no send operation.
C10_RestoreIdempotent ==
    LET once == RestoredSend(send, original_send_method, target_event)
    IN  /\ RestoredSend(once, original_send_method, target_event) = once
        /\ original_send_method = NoSend => once = send

\* The first call ran restore with nothing installed, the second one
\* restored after its loop.
C10_Witness ==
    /\ Returned(1) /\ raisedAt[1] = "create"
    /\ Returned(2) /\ raisedAt[2] = "none"
    /\ send[2] = original_send_method

\* The messages of w that are not None.
NonNull(w) == SelectSeq(w, LAMBDA m : m.kind # "none")
IsPrefix(a, b) == Len(a) <= Len(b) /\ SubSeq(b, 1, Len(a)) = a

\* C11: when invocations overlap, the interceptor of an invocation stays
\* installed on its event until that invocation has finished waiting, and
\* once all invocations have returned every event that was created has
\* its own original send operation back.
C11_OverlapKeepsOwnBinding ==
    everOverlap =>
        /\ \A i \in Invs : pc[i] \in {"loop", "waiting"} => send[i] = Icpt(i)
        /\ (\A i \in Invs : Returned(i)) =>
              \A i \in Invs : send[i] # NoSend => send[i] = Orig(i)

\* C12: the batch an invocation returns holds exactly the (non-null)
\* messages the host sent on that invocation's own event while it waited,
\* also when invocations overlap.
C12_BatchIsOwnWindow ==
    \A i \in Invs :
        (Returned(i) /\ raisedAt[i] = "none") =>
            ret[i].snap = NonNull(window[i])

\* C18: a host send on an event whose invocation has returned is captured
\* by no buffer, leaves every returned outcome as it was, and is handled
\* by that event's own original send operation.
C18_LateSendGoesToOwnOriginal ==
    [][(hostSends' # hostSends /\ Returned(lastSend'.e)) =>
           /\ heap' = heap
           /\ ret' = ret
           /\ lastSend'.result = "original"
           /\ Len(delivered') = Len(delivered) + 1
           /\ delivered'[Len(delivered')].on = lastSend'.e
           /\ delivered'[Len(delivered')].via = lastSend'.e]_vars

\* C19: while an invocation waits the capture buffer only grows, and the
\* list an invocation returned keeps the content it had at the return.
C19_BufferAppendOnlyBatchFrozen ==
    [][\A i \in Invs :
          /\ (pc[i] = "waiting" /\ pc'[i] = "waiting") =>
                IsPrefix(heap[captured_messages], heap'[captured_messages'])
          /\ (Returned(i)' /\ ret'[i].ok) =>
                heap'[ret'[i].batch] = ret'[i].snap]_vars

\* ------------------------------------------------ forwarder properties
\* what the forwarder of invocation i did, in order
Own(i) == SelectSeq(outbox, LAMBDA r : r.by = i)
Forwarded(i) == api[i] = "forward" /\ Returned(i)
FailedDelivery(i) ==
    \E k \in 1..Len(outbox) :
        outbox[k].by = i /\ outbox[k].kind = "forward" /\ ~outbox[k].ok

\* N deliveries of the batch b in order with a pacing sleep between each
\* two of them
PacedDeliveries(i, b) ==
    [k \in 1..(IF b = <<>> THEN 0 ELSE 2 * Len(b) - 1) |->
        IF k % 2 = 1 THEN Delivery(i, b[(k + 1) \div 2], TRUE)
                     ELSE Pace(i, forward_interval[i])]

\* C13: a forwarding call whose capture succeeded with N messages, and
\* whose deliveries all succeed, has performed exactly the N deliveries of
\* the batch in capture order with N-1 pacing sleeps, one between each two
\* consecutive deliveries and none after the last, and no failure notice.
C13_ForwardsEveryCapturedMessage ==
    \A i \in Invs :
        (Forwarded(i) /\ ret[i].ok /\ ~FailedDelivery(i)) =>
            Own(i) = PacedDeliveries(i, ret[i].snap)

\* C14: a forwarding call whose capture failed (timeout or exception) has
\* performed exactly one delivery, the failure notice, and the text of the
\* notice contains the command of the call.
C14_FailedCaptureSendsOneNotice ==
    \A i \in Invs :
        (Forwarded(i) /\ ~ret[i].ok) =>
            /\ Len(Own(i)) = 1
            /\ Own(i)[1].kind = "notice"
            /\ command[i] \in Range(Own(i)[1].text)

C14_Witness ==
    /\ Forwarded(1) /\ TimedOut(1)
    /\ Len(outbox) = 1 /\ outbox[1].kind = "notice" /\ outbox[1].ok

\* C15: no forwarding call ends by raising to its caller; and once a
\* delivery of a successfully captured batch has failed, every captured
\* message has been attempted at most once, no failure notice has been
\* sent, and the call returns with the exception caught by the executor.
C15_FailedDeliveryCaughtNotRetried ==
    \A i \in Invs :
        /\ pc[i] # "raised"
        /\ (api[i] = "forward" /\ ret[i].ok /\ FailedDelivery(i)) =>
              /\ \A m \in Range(ret[i].snap) :
                    Cardinality({k \in 1..Len(outbox) :
                        outbox[k].by = i /\ outbox[k].kind = "forward"
                            /\ outbox[k].msg = m}) <= 1
              /\ \A k \in 1..Len(outbox) :
                    outbox[k].by = i => outbox[k].kind # "notice"
              /\ Returned(i) => caught[i]

C15_Witness ==
    /\ Forwarded(1) /\ ret[1].ok /\ caught[1]
    /\ Len(ret[1].snap) = 2
    /\ Len(outbox) = 3 /\ ~outbox[3].ok

\* ------------------------------------------------ executor properties
\* The outcome of a call as a function of what the host did: the step that
\* raised, if any, and the messages sent on the event during the window.
HostOutcome(i) ==
    IF raisedAt[i] = "none" /\ NonNull(window[i]) # <<>>
        THEN [ok |-> TRUE, snap |-> NonNull(window[i])]
        ELSE [ok |-> FALSE, snap |-> <<>>]

\* C16: execute_command runs the trigger with 20.0 s and 0.1 s; a call
\* with these timings, made through either executor method, returns the
\* outcome the host behaviour alone determines and a timeout takes the same
\* number of sleeps; a failed or raising trigger is reported as (False, []).
C16_DefaultEqualsExplicitOptions ==
    \A i \in Invs :
        /\ (api[i] = "default") =>
              (req[i] = [mw |-> DefaultWait, iv |-> DefaultInterval])
        /\ (Returned(i) /\ api[i] \in {"default", "capture"}
              /\ req[i] = [mw |-> DefaultWait, iv |-> DefaultInterval]) =>
              /\ [ok |-> ret[i].ok, snap |-> ret[i].snap] = HostOutcome(i)
              /\ ~ret[i].ok => ret[i] = FailureResult
              /\ TimedOut(i) =>
                    sleeps[i] = TimeoutSleeps(DefaultWait, DefaultInterval)

\* execute_command timed out after a None message of the host.
C16_Witness ==
    /\ api[1] = "default" /\ TimedOut(1)
    /\ window[1] # <<>>
    /\ sleeps[1] = TimeoutSleeps(DefaultWait, DefaultInterval)

\* ------------------------------------------------ processor properties
\* the steps that can raise inside CommandProcessor.execute_command
ExcSteps == {"create", "install", "submit", "process_send"}

\* an execution the processor attempted and that did not go through
FailedExecution(i) ==
    /\ api[i] = "process" /\ Returned(i) /\ response_mode[i] # "none"
    /\ (~ret[i].ok \/ raisedAt[i] # "none")

\* C17: the string returned for a failed execution names the command and
\* says that the execution failed or timed out, and no string returned by
\* CommandProcessor.execute_command contains the text of an exception.
C17_FailureStringHidesExceptions ==
    \A i \in Invs :
        /\ FailedExecution(i) =>
              /\ command[i] \in Range(result[i])
              /\ "failed or timed out" \in Range(result[i])
        /\ (api[i] = "process" /\ Returned(i)) =>
              \A x \in ExcSteps : ExcText(x) \notin Range(result[i])

\* C20: the handler of /cmd2llm exec does not raise, and when it is done
\* it has yielded exactly the string CommandProcessor.execute_command
\* returned for the command.
C20_ExecHandlerYieldsResult ==
    \A i \in Invs :
        api[i] = "exec" =>
            /\ pc[i] # "raised"
            /\ Returned(i) => (result[i] # <<>> /\ yielded[i] = <<result[i]>>)

\* ------------------------------------------------ order of the steps
\* the successions of positions of one capture call
StepOrder ==
    {<<"idle", "created">>, <<"idle", "except">>,
     <<"created", "intercepting">>, <<"created", "except">>,
     <<"intercepting", "loop">>, <<"intercepting", "except">>,
     <<"loop", "waiting">>, <<"loop", "exited">>,
     <<"waiting", "loop">>, <<"waiting", "exited">>,
     <<"exited", "restored">>, <<"restored", "returned">>,
     <<"except", "returned">>}

\* C22: a capture call goes through create, install, submit, wait,
\* restore, return in this order: the event is put in the host queue only
\* with the interceptor installed on it and only once, the call sleeps
\* only after the submission, and it returns only from the position after
\* restore_message_sender (or from the except branch, which restores).
C22_StepsInOrder ==
    [][\A i \in Invs :
          /\ pc'[i] # pc[i] => <<pc[i], pc'[i]>> \in StepOrder
          /\ queued'[i] # queued[i] =>
                /\ send[i] = Icpt(i)
                /\ queued[i] = 0 /\ queued'[i] = 1
                /\ pc[i] = "intercepting"
          /\ pc'[i] = "waiting" => queued'[i] = 1
          /\ (Returned(i)' /\ raisedAt'[i] = "none") => queued'[i] = 1]_vars

\* A call that slept, was answered and returned after the restore.
C22_Witness ==
    /\ Returned(1) /\ raisedAt[1] = "none" /\ ret[1].ok
    /\ queued[1] = 1 /\ sleeps[1] >= 1 /\ send[1] = Orig(1)

\* the messages of all list objects
Captured == UNION {Range(heap[l]) : l \in Lists}

\* the messages the interceptor of invocation i captured while i waited
CapturedFor(i) == SelectSeq(window[i], LAMBDA m : m \in Captured)

\* C23: the host sends only while every called task is suspended in its
\* poll sleep or has returned, and a call that returns from the loop
\* returns every message its interceptor captured before the restore.
C23_NoCapturedMessageLost ==
    [][/\ hostSends' # hostSends =>
             \A i \in Invs : pc[i] \in {"idle", "waiting", "returned"}
       /\ \A i \in Invs :
             (Returned(i)' /\ ~Returned(i) /\ raisedAt[i] = "none") =>
                 Range(CapturedFor(i)) \subseteq Range(ret'[i].snap)]_vars

\* C24: the loop is left at the first poll that finds the buffer
\* non-empty and the call sleeps no more; the batch is the buffer of that
\* poll, which holds exactly the messages sent on the event before it.
C24_StopsAtFirstNonEmptyPoll ==
    [][\A i \in Invs :
          /\ (pc[i] = "waiting" /\ pc'[i] # "waiting") =>
                /\ heap[captured_messages] # <<>> => pc'[i] = "exited"
                /\ heap[captured_messages] = <<>> => pc'[i] = "loop"
          /\ pc[i] \in {"exited", "restored", "returned"} =>
                sleeps'[i] = sleeps[i]
          /\ (Returned(i)' /\ ret'[i].ok) =>
                /\ ret'[i].snap = exitBuf'[i]
                /\ ret'[i].snap = NonNull(window'[i])]_vars

\* ------------------------------------------------ command text properties
\* the wake prefixes the host configuration holds, "/" when it holds none
ConfiguredPrefixes ==
    IF wake_prefix.t \in {"str", "list"} /\ wake_prefix.v # <<>>
        THEN wake_prefix.v ELSE <<"/">>

\* the processor went past its checks for invocation i
Accepted(i) == api[i] = "process" /\ response_mode[i] # "none"

\* C26: the text the processor submits is the command itself when the
\* command starts with a non-empty configured wake prefix, and otherwise
\* the first configured prefix followed by the command; non-empty args
\* follow after one space; so no prefix is ever prepended twice.
C26_OnePrefixThenArgs ==
    \A i \in Invs :
        Accepted(i) =>
            LET c == command[i]
                tail == IF call_args[i] = "" THEN "" ELSE " " \o call_args[i]
                has == \E k \in 1..Len(ConfiguredPrefixes) :
                          /\ ConfiguredPrefixes[k] # ""
                          /\ StartsWith(c, ConfiguredPrefixes[k])
            IN  /\ has => full_command[i] = c \o tail
                /\ ~has => full_command[i] = ConfiguredPrefixes[1] \o c \o tail
                /\ StartsWith(full_command[i], c) \/
                      StartsWith(full_command[i], ConfiguredPrefixes[1] \o c)

\* "/status" is left alone although "!" is the first prefix, with args.
C26_Witness ==
    /\ Accepted(1) /\ Returned(1)
    /\ wake_prefix.v = <<"!", "/">>
    /\ command[1] = "/status" /\ full_command[1] = "/status x=1"

\* the messages of the deliveries the processor made for invocation i
Deliveries(i) == SelectSeq(outbox, LAMBDA r : r.by = i /\ r.kind = "forward")

EnabledFunctions(maps) == {maps[k].fn : k \in {j \in 1..Len(maps) : maps[j].enabled}}

\* the host tool registry holds a function under the name f
Registered(f) == registry[f] # NoCommand

\* C29: a name is in registered_functions if and only if the host tool
\* registry holds the function the plugin registered under that name.
C29_RecordedIffRegistered ==
    \A f \in Functions : (f \in registered_functions) <=> Registered(f)

\* the last operation was a refresh_functions whose host operations all
\* succeeded
CleanRefresh(op) == op.op = "refresh" /\ op.clean

\* C30: after a refresh_functions whose host operations succeed,
\* registered_functions is the set of function names of the enabled
\* mappings (empty when the plugin is disabled), every registered handler is
\* bound to an enabled command mapped to its function, and a second refresh
\* changes nothing.
C30_RefreshMatchesEnabledMappings ==
    [][CleanRefresh(lastOp') =>
          /\ registered_functions' =
                 IF enable_plugin' THEN EnabledFunctions(command_mappings')
                                   ELSE {}
          /\ \A f \in Functions : Registered(f)' <=> f \in registered_functions'
          /\ \A f \in registered_functions' :
                 GetMapping(command_mappings', registry'[f], TRUE).fn = f
          /\ RefreshFunctions(enable_plugin', command_mappings',
                              RegState(registry', registered_functions'),
                              {}, {})
                 = RegState(registry', registered_functions')]_vars

\* A refresh dropped the function of a mapping disabled while auto refresh
\* was off and kept the function of the mapping still enabled.
C30_Witness ==
    /\ CleanRefresh(lastOp)
    /\ enable_plugin
    /\ Len(command_mappings) = 2
    /\ EnabledFunctions(command_mappings) = {"g"}
    /\ registered_functions = {"g"}
    /\ Registered("g") /\ ~Registered("f")

\* the last operation was a successful /cmd2llm add whose refresh ran with
\* host operations that all succeeded
CleanAdd(op) == op.op = "add" /\ op.ok /\ op.clean

Executable(cmd) ==
    /\ enable_plugin
    /\ \E k \in 1..Len(command_mappings) :
          command_mappings[k].cmd = cmd /\ command_mappings[k].enabled

\* C25: a call of execute_command for a command that is not executable
\* (plugin disabled, no mapping, mapping disabled) has returned an error
\* string without submitting an event and without any delivery, also when
\* it came through an LLM function that is still registered.
C25_NoExecutionUnlessEnabledMapping ==
    \A i \in Invs :
        (api[i] = "process" /\ ~Executable(command[i])) =>
            /\ Returned(i)
            /\ result[i] = IF ~enable_plugin THEN ResultDisabled
                                             ELSE ResultUnmapped(command[i])
            /\ queued[i] = 0
            /\ Own(i) = <<>>
            /\ response_mode[i] = "none"

\* With auto refresh off the mapping of "status" was disabled and its
\* function stayed registered; the LLM called it and got the error.
C25_Witness ==
    /\ enable_plugin /\ ~auto_refresh
    /\ command_mappings = <<Mapping("status", "f", FALSE)>>
    /\ registry["f"] = "status" /\ "f" \in registered_functions
    /\ tool[1].fn = "f" /\ tool[1].mode = "text_only"
    /\ Returned(1) /\ result[1] = ResultUnmapped("status")
    /\ queued[1] = 0

\* C28: a handler passes its bound command to execute_command whatever
\* command_text the caller supplied; it returns nothing in forward_only
\* mode and the execution result text in the other modes.
C28_HandlerExecutesBoundCommand ==
    \A i \in Invs :
        tool[i].fn # "" =>
            /\ api[i] = "process"
            /\ command[i] = tool[i].bound
            /\ tool[i].mode \in {"none", "forward_only"} => toolRet[i] = <<>>
            /\ tool[i].mode \in {"text_only", "forward_and_text"} =>
                  /\ Len(toolRet[i]) > 1
                  /\ SubSeq(toolRet[i], 2, Len(toolRet[i])) = result[i]

\* The LLM asked for "help" through the function of "status": "status"
\* was executed and its result text returned.
C28_Witness ==
    /\ tool[1].fn = "f" /\ tool[1].asked = "help" /\ tool[1].bound = "status"
    /\ Accepted(1) /\ Returned(1) /\ ret[1].ok
    /\ command[1] = "status"
    /\ tool[1].mode = "forward_and_text"
    /\ toolRet[1] = <<"command result: ">> \o result[1]

\* the step is a call of the DataManager method op
CallStep(op) == lastCall' # lastCall /\ lastCall'.op = op

\* the store as the next method call will find it
Reloaded == ReloadFromConfig(config_mappings)

\* command name, function, description and enabled flag of every mapping
Core(maps) ==
    [k \in 1..Len(maps) |->
        [cmd |-> maps[k].cmd, fn |-> maps[k].fn, desc |-> maps[k].desc,
         enabled |-> maps[k].enabled]]

\* C37: after a successful add_mapping, remove_mapping or
\* set_mapping_enabled, reload_from_config gives an in-memory store with
\* the same command names, functions, descriptions and enabled flags.
C37_ReloadIsRoundTrip ==
    (lastCall.op \in {"add", "remove", "set_enabled"} /\ lastCall.ok) =>
        Core(Reloaded) = Core(command_mappings)

\* C31: an add_mapping that returns failure leaves the in-memory store
\* and the configuration list unchanged, and no add_mapping changes a
\* mapping that existed before it.
C31_FailedAddChangesNothing ==
    [][CallStep("add") =>
          /\ ~lastCall'.ok =>
                /\ command_mappings' = command_mappings
                /\ config_mappings' = config_mappings
          /\ \A k \in 1..Len(Reloaded) :
                GetMapping(ReloadFromConfig(config_mappings'),
                           Reloaded[k].cmd, FALSE) = Reloaded[k]]_vars

C33_SetEnabledChangesOnlyFlag ==
    [][CallStep("set_enabled") =>
          /\ (~HasCommand(command_mappings, lastCall'.cmd)
                \/ GetMapping(command_mappings, lastCall'.cmd, FALSE).enabled
                       = lastCall'.flag) => ~lastCall'.ok
          /\ ~lastCall'.ok =>
                /\ command_mappings' = command_mappings
                /\ config_mappings' = config_mappings
          /\ lastCall'.ok =>
                command_mappings' =
                    [k \in 1..Len(command_mappings) |->
                        IF command_mappings[k].cmd = lastCall'.cmd
                            THEN [command_mappings[k] EXCEPT
                                      !.enabled = lastCall'.flag]
                            ELSE command_mappings[k]]]_vars

\* sub keeps the order of all
InOrderOf(sub, all) == sub = SelectSeq(all, LAMBDA m : m \in Range(sub))

\* C34: list_mappings(enabled_only=True) equals
\* list_mappings(state_filter="enabled"); the enabled and the disabled
\* listing are disjoint, each keeps the store's order, and together they
\* hold every mapping of the listing "all".
C34_ListingsPartitionTheStore ==
    LET en == ListMappings(Reloaded, FALSE, "enabled")
        dis == ListMappings(Reloaded, FALSE, "disabled")
        all == ListMappings(Reloaded, FALSE, "all")
    IN  /\ ListMappings(Reloaded, TRUE, "all") = en
        /\ all = Reloaded
        /\ Range(en) \cap Range(dis) = {}
        /\ Range(en) \cup Range(dis) = Range(all)
        /\ \A m \in Range(en) : m.enabled
        /\ \A m \in Range(dis) : ~m.enabled
        /\ InOrderOf(en, all) /\ InOrderOf(dis, all)
        /\ lastCall.op = "list" =>
              lastCall.ret = ListMappings(command_mappings, lastCall.flag,
                                          lastCall.desc)

\* list_mappings(enabled_only=True) returned one of two mappings.
C34_Witness ==
    /\ lastCall.op = "list" /\ lastCall.flag /\ lastCall.desc = "all"
    /\ Len(command_mappings) = 2
    /\ Len(lastCall.ret) = 1 /\ lastCall.ret[1].enabled

\* no two command names are mapped to the same function
NoSharedFunction(maps) ==
    \A j, k \in 1..Len(maps) : maps[j].fn = maps[k].fn => j = k

Imports ==
    /\ CallStep("construct")
    /\ command_mappings' # <<>>
    /\ command_mappings' = LoadLegacyMappings(legacy_file)
    /\ command_mappings' # Reloaded

\* C36: a construction imports the legacy file only with auto migration
\* on, the once flag unset and an empty store; a construction that finds
\* mappings keeps them; after a construction with auto migration on the
\* once flag is set, and it stays set, so no later construction imports.
C36_MigratesAtMostOnce ==
    [][/\ Imports =>
             /\ compat.auto_migrate_legacy_json
             /\ ~compat.migration_once_flag
             /\ Reloaded = <<>>
       /\ (CallStep("construct") /\ Reloaded # <<>>) =>
             /\ command_mappings' = Reloaded
             /\ config_mappings' = config_mappings
       /\ (CallStep("construct") /\ compat.auto_migrate_legacy_json) =>
             compat'.migration_once_flag
       /\ compat.migration_once_flag => compat'.migration_once_flag]_vars

\* After an import the store was emptied and the legacy file is still
\* there; the next construction found the flag set and imported nothing.
C36_Witness ==
    /\ lastCall.op = "construct" /\ lastCall.why = ""
    /\ compat.auto_migrate_legacy_json /\ compat.migration_once_flag
    /\ command_mappings = <<>> /\ config_mappings = <<>>
    /\ LoadLegacyMappings(legacy_file) # <<>>

====
